---- MODULE Spec2Model ----
(***************************************************************************)
(* Wumpus World: the environment state machine of src/src/wumpus.rs       *)
(* (Map, Game, Game::do_action) driven by the server loop of              *)
(* src/src/bin/server.rs.                                                  *)
(***************************************************************************)
EXTENDS Integers, Sequences, FiniteSets, TLC

VARIABLES
    map,          \* Game.map: the Map struct (size and the seven coordinate sets)
    location,     \* Game.location
    direction,    \* Game.direction
    events,       \* Game.events
    game_over,    \* Game.game_over
    score,        \* Game.score
    arrows,       \* Game.arrows
    actions_done, \* number of actions the server loop has applied so far
    killed,       \* history: cells whose wumpus a Shoot has removed
    falls,        \* history: per pit cell, how many times a Walk has put the agent on it
    turns,        \* history: the current run of consecutive Left (or Right) actions
    last_call,    \* history: the last operation called, its argument, and game_over before it
    blacklist,    \* the blacklist handed to the validator and the estimator
                  \* (the blacklist of the agent where ModelBayes plays)
    args,         \* the remaining arguments of the last call of a function of
                  \* algorithms.rs (where ModelBayes plays: the other fields of
                  \* the agent, and the zero-factor product of the build)
    result        \* the value that call returned

vars == <<map, location, direction, events, game_over, score, arrows,
          actions_done, killed, falls, turns, last_call, blacklist, args, result>>

----------------------------------------------------------------------------
(* Bounds of the model *)

\* The server loop is cut after this many actions.
MaxActions == 6

\* Random coordinates are drawn among the first SampleCells cells of the
\* 4 x 4 sample space, in row-major order.
SampleCells == 7

\* Map API calls (add_* / remove_*) are made on the first MapOpCells cells.
MapOpCells == 3

\* The maps and blacklists handed to is_map_valid have at most MaxItems
\* entries in all.
MaxItems == 5

\* The entries of the map and of the blacklist, and the cells of the two
\* lists taken together, of a call of calculate_map_possibilities.
MaxPossItems == 2
MaxListed == 2

\* The discovered cells and hazards of a map handed to pathfind.
MaxPathItems == 6

\* The game of a client running ModelBayes is cut after this many actions.
MaxPlays == 40

----------------------------------------------------------------------------
(* Constants of Game *)

SIZE_X == 4
SIZE_Y == 4

COUNT_TREASURES == 2
COUNT_WUMPUSES  == 1
COUNT_PITS      == 3

SPAWN_ARROWS == 1

SCORE_ACTION   == 0 - 1
SCORE_SHOT     == 0 - 10
SCORE_DUG      == 0 - 50
SCORE_TREASURE == 250
SCORE_WUMPUS   == 0 - 200
SCORE_PIT      == 0 - 100

Coord(x, y) == [x |-> x, y |-> y]

SPAWN_LOCATION  == Coord(0, 0)
SPAWN_DIRECTION == "East"

----------------------------------------------------------------------------
(* Direction *)

Direction == {"East", "South", "West", "North"}

rotate_left_wrong(d) ==
    CASE d = "East"  -> "North"
      [] d = "South" -> "East"
      [] d = "West"  -> "North"
      [] d = "North" -> "West"

rotate_left(d) ==
    CASE d = "East"  -> "North"
      [] d = "South" -> "East"
      [] d = "West"  -> "South"
      [] d = "North" -> "West"

rotate_right(d) ==
    CASE d = "East"  -> "South"
      [] d = "South" -> "West"
      [] d = "West"  -> "North"
      [] d = "North" -> "East"

----------------------------------------------------------------------------
(* Coordinate *)

get_front(c, d) ==
    CASE d = "East"  -> Coord(c.x + 1, c.y)
      [] d = "South" -> Coord(c.x, c.y - 1)
      [] d = "West"  -> Coord(c.x - 1, c.y)
      [] d = "North" -> Coord(c.x, c.y + 1)

get_neighbours(c) ==
    { Coord(c.x + 1, c.y), Coord(c.x, c.y - 1),
      Coord(c.x - 1, c.y), Coord(c.x, c.y + 1) }

\* The values rand::random::<Coordinate>() can return.
SampleSpace == { Coord(x, y) : x \in 0..(SIZE_X - 1), y \in 0..(SIZE_Y - 1) }

\* Row-major index of a cell of the sample space.
CellIndex(c) == c.y * SIZE_X + c.x

----------------------------------------------------------------------------
(* Events *)

DefaultEvents ==
    [ treasure |-> FALSE, wumpus |-> FALSE, pit |-> FALSE,
      glitter |-> FALSE, stench |-> FALSE, breeze |-> FALSE,
      bonked |-> FALSE, scream |-> FALSE, gameover |-> FALSE ]

----------------------------------------------------------------------------
(* Map *)

DefaultMap ==
    [ size       |-> Coord(3, 3),
      treasures  |-> {},
      wumpuses   |-> {},
      pits       |-> {},
      glitters   |-> {},
      stenches   |-> {},
      breezes    |-> {},
      discovered |-> {} ]

encompass_no_lower(m, loc) ==
    loc.x <= m.size.x /\ loc.y <= m.size.y

encompass(m, loc) ==
    (loc.x >= 0 /\ loc.x <= m.size.x)
    /\
    (loc.y >= 0 /\ loc.y <= m.size.y)

add_treasure(m, loc) ==
    [m EXCEPT !.treasures = @ \cup {loc},
              !.glitters  = @ \cup get_neighbours(loc)]

add_wumpus(m, loc) ==
    [m EXCEPT !.wumpuses = @ \cup {loc},
              !.stenches = @ \cup get_neighbours(loc)]

add_pit(m, loc) ==
    [m EXCEPT !.pits    = @ \cup {loc},
              !.breezes = @ \cup get_neighbours(loc)]

remove_treasure_clear_all(m, loc) ==
    [m EXCEPT !.treasures = @ \ {loc},
              !.glitters  = @ \ get_neighbours(loc)]

remove_treasure(m, loc) ==
    LET treasures == m.treasures \ {loc}
        glitters_to_remove ==
            { neighbour \in get_neighbours(loc) :
                ~ \E neighbours_neighbour \in get_neighbours(neighbour) :
                    neighbours_neighbour \in treasures }
    IN  [m EXCEPT !.treasures = treasures,
                  !.glitters  = @ \ glitters_to_remove]

remove_wumpus_markers_only(m, loc) ==
    [m EXCEPT !.stenches = @ \ get_neighbours(loc)]

remove_wumpus(m, loc) ==
    LET wumpuses == m.wumpuses \ {loc}
        stenches_to_remove ==
            { neighbour \in get_neighbours(loc) :
                ~ \E neighbours_neighbour \in get_neighbours(neighbour) :
                    neighbours_neighbour \in wumpuses }
    IN  [m EXCEPT !.wumpuses = wumpuses,
                  !.stenches = @ \ stenches_to_remove]

remove_pit(m, loc) ==
    LET pits == m.pits \ {loc}
        breezes_to_remove ==
            { neighbour \in get_neighbours(loc) :
                ~ \E neighbours_neighbour \in get_neighbours(neighbour) :
                    neighbours_neighbour \in pits }
    IN  [m EXCEPT !.pits    = pits,
                  !.breezes = @ \ breezes_to_remove]

----------------------------------------------------------------------------
(* Game *)

Action == {"Walk", "Left", "Right", "Dig", "Shoot"}

\* The Game struct assembled from the state variables.
Game ==
    [ map       |-> map,
      location  |-> location,
      direction |-> direction,
      events    |-> events,
      game_over |-> game_over,
      score     |-> score,
      arrows    |-> arrows ]

DefaultGame ==
    [ map       |-> DefaultMap,
      location  |-> Coord(0, 0),
      direction |-> "East",
      events    |-> DefaultEvents,
      game_over |-> FALSE,
      score     |-> 0,
      arrows    |-> 1 ]

update_senses(g) ==
    [g EXCEPT !.events.glitter = g.location \in g.map.glitters,
              !.events.stench  = g.location \in g.map.stenches,
              !.events.breeze  = g.location \in g.map.breezes]

\* place_player without the game_over assignment of the wumpus branch.
place_player_no_game_over(g, new_location) ==
    LET g1 == [g EXCEPT !.map.discovered = @ \cup {new_location}]
        g2 == IF new_location \in g1.map.wumpuses
              THEN [g1 EXCEPT !.events.gameover = TRUE,
                              !.events.wumpus   = TRUE,
                              !.score           = @ + SCORE_WUMPUS]
              ELSE g1
        g3 == IF new_location \in g2.map.pits
              THEN [g2 EXCEPT !.events.pit = TRUE,
                              !.score      = @ + SCORE_PIT]
              ELSE g2
    IN  [g3 EXCEPT !.location = new_location]

\* place_player returning from the wumpus branch before the move.
place_player_return_on_wumpus(g, new_location) ==
    LET g1 == [g EXCEPT !.map.discovered = @ \cup {new_location}]
    IN  IF new_location \in g1.map.wumpuses
        THEN [g1 EXCEPT !.game_over       = TRUE,
                        !.events.gameover = TRUE,
                        !.events.wumpus   = TRUE,
                        !.score           = @ + SCORE_WUMPUS]
        ELSE LET g3 == IF new_location \in g1.map.pits
                       THEN [g1 EXCEPT !.events.pit = TRUE,
                                       !.score      = @ + SCORE_PIT]
                       ELSE g1
             IN  [g3 EXCEPT !.location = new_location]

\* place_player charging a pit only the first time its cell is discovered.
place_player_pit_once(g, new_location) ==
    LET g1 == [g EXCEPT !.map.discovered = @ \cup {new_location}]
        g2 == IF new_location \in g1.map.wumpuses
              THEN [g1 EXCEPT !.game_over       = TRUE,
                              !.events.gameover = TRUE,
                              !.events.wumpus   = TRUE,
                              !.score           = @ + SCORE_WUMPUS]
              ELSE g1
        g3 == IF new_location \in g2.map.pits /\ new_location \notin g.map.discovered
              THEN [g2 EXCEPT !.events.pit = TRUE,
                              !.score      = @ + SCORE_PIT]
              ELSE g2
    IN  [g3 EXCEPT !.location = new_location]

place_player(g, new_location) ==
    LET g1 == [g EXCEPT !.map.discovered = @ \cup {new_location}]
        g2 == IF new_location \in g1.map.wumpuses
              THEN [g1 EXCEPT !.game_over       = TRUE,
                              !.events.gameover = TRUE,
                              !.events.wumpus   = TRUE,
                              !.score           = @ + SCORE_WUMPUS]
              ELSE g1
        g3 == IF new_location \in g2.map.pits
              THEN [g2 EXCEPT !.events.pit = TRUE,
                              !.score      = @ + SCORE_PIT]
              ELSE g2
    IN  [g3 EXCEPT !.location = new_location]

\* The Walk arm of do_action.
action_walk(g) ==
    LET new_location == get_front(g.location, g.direction)
    IN  IF encompass(g.map, new_location)
        THEN place_player(g, new_location)
        ELSE [g EXCEPT !.events.bonked = TRUE]

\* The Left arm of do_action.
action_left(g) == [g EXCEPT !.direction = rotate_left(g.direction)]

\* The Right arm of do_action.
action_right(g) == [g EXCEPT !.direction = rotate_right(g.direction)]

\* The Dig arm charging the dig cost only when a treasure is found.
action_dig_cost_on_find(g) ==
    LET g2 == IF g.location \in g.map.treasures
              THEN [g EXCEPT !.map             = remove_treasure(g.map, g.location),
                             !.score           = @ + SCORE_DUG + SCORE_TREASURE,
                             !.events.treasure = TRUE]
              ELSE g
    IN  IF g2.map.treasures = {}
        THEN [g2 EXCEPT !.events.gameover = TRUE, !.game_over = TRUE]
        ELSE g2

\* The Dig arm testing for the end of the game before the removal.
action_dig_check_first(g) ==
    LET g1 == [g EXCEPT !.score = @ + SCORE_DUG]
        g2 == IF g1.map.treasures = {}
              THEN [g1 EXCEPT !.events.gameover = TRUE, !.game_over = TRUE]
              ELSE g1
    IN  IF g2.location \in g2.map.treasures
        THEN [g2 EXCEPT !.map             = remove_treasure(g2.map, g2.location),
                        !.score           = @ + SCORE_TREASURE,
                        !.events.treasure = TRUE]
        ELSE g2

\* The Dig arm of do_action.
action_dig(g) ==
    LET g1 == [g EXCEPT !.score = @ + SCORE_DUG]
        g2 == IF g1.location \in g1.map.treasures
              THEN [g1 EXCEPT !.map             = remove_treasure(g1.map, g1.location),
                              !.score           = @ + SCORE_TREASURE,
                              !.events.treasure = TRUE]
              ELSE g1
    IN  IF g2.map.treasures = {}
        THEN [g2 EXCEPT !.events.gameover = TRUE, !.game_over = TRUE]
        ELSE g2

\* The Shoot arm without the test for a remaining arrow.
action_shoot_unguarded(g) ==
    LET g1 == [g EXCEPT !.arrows = @ - 1, !.score = @ + SCORE_SHOT]
        front_location == get_front(g1.location, g1.direction)
    IN  IF front_location \in g1.map.wumpuses
        THEN [g1 EXCEPT !.map           = remove_wumpus(g1.map, front_location),
                        !.events.scream = TRUE]
        ELSE g1

\* The Shoot arm of do_action.
action_shoot(g) ==
    IF g.arrows > 0
    THEN LET g1 == [g EXCEPT !.arrows = @ - 1, !.score = @ + SCORE_SHOT]
             front_location == get_front(g1.location, g1.direction)
         IN  IF front_location \in g1.map.wumpuses
             THEN [g1 EXCEPT !.map           = remove_wumpus(g1.map, front_location),
                             !.events.scream = TRUE]
             ELSE g1
    ELSE g

\* do_action resetting the events before the game_over test.
do_action_reset_first(g, action) ==
    LET g0 == [g EXCEPT !.events = DefaultEvents]
    IN  IF g0.game_over
        THEN [g0 EXCEPT !.events.gameover = TRUE]
        ELSE LET g1 == [g0 EXCEPT !.score = @ + SCORE_ACTION]
                 g2 == CASE action = "Walk"  -> action_walk(g1)
                         [] action = "Left"  -> action_left(g1)
                         [] action = "Right" -> action_right(g1)
                         [] action = "Dig"   -> action_dig(g1)
                         [] action = "Shoot" -> action_shoot(g1)
             IN  update_senses(g2)

do_action(g, action) ==
    IF g.game_over
    THEN [g EXCEPT !.events.gameover = TRUE]
    ELSE LET g1 == [g EXCEPT !.events = DefaultEvents,
                             !.score  = @ + SCORE_ACTION]
             g2 == CASE action = "Walk"  -> action_walk(g1)
                     [] action = "Left"  -> action_left(g1)
                     [] action = "Right" -> action_right(g1)
                     [] action = "Dig"   -> action_dig(g1)
                     [] action = "Shoot" -> action_shoot(g1)
         IN  update_senses(g2)

\* One "for location in iter.by_ref().take(n) { map.add_*(location) }" loop of
\* new_random, over special_locations[first..last].
RECURSIVE insert_special(_, _, _, _, _)
insert_special(m, special_locations, first, last, class) ==
    IF first > last
    THEN m
    ELSE LET loc == special_locations[first]
             m1  == CASE class = "Treasure" -> add_treasure(m, loc)
                      [] class = "Wumpus"   -> add_wumpus(m, loc)
                      [] class = "Pit"      -> add_pit(m, loc)
         IN  insert_special(m1, special_locations, first + 1, last, class)

\* new_random with each insertion loop restarting after the spawn instead of
\* continuing where the previous loop stopped (iter without by_ref).
new_random_restarting_iter(special_locations) ==
    LET map0 == [DefaultMap EXCEPT !.discovered = @ \cup {SPAWN_LOCATION}]
        map1 == insert_special(map0, special_locations, 2, 1 + COUNT_TREASURES, "Treasure")
        map2 == insert_special(map1, special_locations, 2, 1 + COUNT_WUMPUSES, "Wumpus")
        map3 == insert_special(map2, special_locations, 2, 1 + COUNT_PITS, "Pit")
        game == [DefaultGame EXCEPT !.map       = map3,
                                    !.direction = SPAWN_DIRECTION,
                                    !.arrows    = SPAWN_ARROWS]
    IN  update_senses(place_player(game, SPAWN_LOCATION))

\* new_random, given the vector special_locations its sampling loop has built
\* (special_locations[1] is the spawn; sequences are 1-based).
new_random(special_locations) ==
    LET map0 == [DefaultMap EXCEPT !.discovered = @ \cup {SPAWN_LOCATION}]
        t1   == 2
        w1   == t1 + COUNT_TREASURES
        p1   == w1 + COUNT_WUMPUSES
        map1 == insert_special(map0, special_locations, t1, w1 - 1, "Treasure")
        map2 == insert_special(map1, special_locations, w1, p1 - 1, "Wumpus")
        map3 == insert_special(map2, special_locations, p1, p1 + COUNT_PITS - 1, "Pit")
        game == [DefaultGame EXCEPT !.map       = map3,
                                    !.direction = SPAWN_DIRECTION,
                                    !.arrows    = SPAWN_ARROWS]
    IN  update_senses(place_player(game, SPAWN_LOCATION))

\* The cells the sampling loop of new_random draws from.
Samples == { c \in SampleSpace : CellIndex(c) < SampleCells }

\* The vectors the sampling loop of new_random can end with: the spawn
\* followed by COUNT_TREASURES + COUNT_WUMPUSES + COUNT_PITS pairwise distinct
\* sampled cells, none of them the spawn.
SpecialLocations ==
    LET n == COUNT_TREASURES + COUNT_WUMPUSES + COUNT_PITS
    IN  { <<SPAWN_LOCATION>> \o s : s \in
            { f \in [1..n -> Samples \ {SPAWN_LOCATION}] :
                \A i, j \in 1..n : i # j => f[i] # f[j] } }

----------------------------------------------------------------------------
(* algorithms.rs: the redaction of the map *)

\* hide_map intersecting treasures with discovered like the other sets.
hide_map_keep_discovered_treasures(m) ==
    [m EXCEPT !.treasures = m.discovered \cap m.treasures,
              !.wumpuses  = m.discovered \cap m.wumpuses,
              !.pits      = m.discovered \cap m.pits,
              !.glitters  = m.discovered \cap m.glitters,
              !.stenches  = m.discovered \cap m.stenches,
              !.breezes   = m.discovered \cap m.breezes]

\* hide_map leaving the breezes as they are.
hide_map_forget_breezes(m) ==
    [m EXCEPT !.treasures = {},
              !.wumpuses  = m.discovered \cap m.wumpuses,
              !.pits      = m.discovered \cap m.pits,
              !.glitters  = m.discovered \cap m.glitters,
              !.stenches  = m.discovered \cap m.stenches]

\* hide_map(&mut map): the map it leaves behind.
hide_map(m) ==
    [m EXCEPT !.treasures = {},
              !.wumpuses  = m.discovered \cap m.wumpuses,
              !.pits      = m.discovered \cap m.pits,
              !.glitters  = m.discovered \cap m.glitters,
              !.stenches  = m.discovered \cap m.stenches,
              !.breezes   = m.discovered \cap m.breezes]

----------------------------------------------------------------------------
(* algorithms.rs: the map validator *)

\* A blacklist is a HashMap<Coordinate, Class>: a function from the listed
\* coordinates to their forbidden class.
EmptyBlacklist == [c \in {} |-> "Empty"]

\* flat_map(|x| x.get_neighbours()) over a set of cells.
neighbours_of_all(cells) == UNION { get_neighbours(x) : x \in cells }

\* The test of a blacklist entry with the Empty arm looking at treasures only.
blacklist_hit_empty_treasures_only(m, loc, class) ==
    CASE class = "Treasure" -> loc \in m.treasures
      [] class = "Wumpus"   -> loc \in m.wumpuses
      [] class = "Pit"      -> loc \in m.pits
      [] class = "Empty"    -> loc \in m.treasures

\* The test of one blacklist entry against the map.
blacklist_hit(m, loc, class) ==
    CASE class = "Treasure" -> loc \in m.treasures
      [] class = "Wumpus"   -> loc \in m.wumpuses
      [] class = "Pit"      -> loc \in m.pits
      [] class = "Empty"    -> \/ loc \in m.treasures
                               \/ loc \in m.wumpuses
                               \/ loc \in m.pits

\* is_map_valid rejecting a class count that reaches its total.
is_map_valid_count_reached(m, bl) ==
    IF \E x \in m.treasures \cup m.wumpuses \cup m.pits : ~encompass(m, x)
    THEN FALSE
    ELSE IF \E loc \in DOMAIN bl : blacklist_hit(m, loc, bl[loc])
    THEN FALSE
    ELSE IF Cardinality(m.treasures) >= COUNT_TREASURES THEN FALSE
    ELSE IF Cardinality(m.wumpuses)  >= COUNT_WUMPUSES  THEN FALSE
    ELSE IF Cardinality(m.pits)      >= COUNT_PITS      THEN FALSE
    ELSE IF ~ \A x \in neighbours_of_all(m.treasures) \cap m.discovered : x \in m.glitters
    THEN FALSE
    ELSE IF ~ \A x \in neighbours_of_all(m.wumpuses) \cap m.discovered : x \in m.stenches
    THEN FALSE
    ELSE IF ~ \A x \in neighbours_of_all(m.pits) \cap m.discovered : x \in m.breezes
    THEN FALSE
    ELSE IF ~ \A glitter \in m.glitters :
                \E neighbour \in { n \in get_neighbours(glitter) : encompass(m, n) } :
                    neighbour \in m.treasures
    THEN FALSE
    ELSE IF ~ \A stench \in m.stenches :
                \E neighbour \in { n \in get_neighbours(stench) : encompass(m, n) } :
                    neighbour \in m.wumpuses
    THEN FALSE
    ELSE IF ~ \A breeze \in m.breezes :
                \E neighbour \in { n \in get_neighbours(breeze) : encompass(m, n) } :
                    neighbour \in m.pits
    THEN FALSE
    ELSE TRUE

is_map_valid(m, bl) ==
    IF \E x \in m.treasures \cup m.wumpuses \cup m.pits : ~encompass(m, x)
    THEN FALSE
    ELSE IF \E loc \in DOMAIN bl : blacklist_hit(m, loc, bl[loc])
    THEN FALSE
    ELSE IF Cardinality(m.treasures) > COUNT_TREASURES THEN FALSE
    ELSE IF Cardinality(m.wumpuses)  > COUNT_WUMPUSES  THEN FALSE
    ELSE IF Cardinality(m.pits)      > COUNT_PITS      THEN FALSE
    ELSE IF ~ \A x \in neighbours_of_all(m.treasures) \cap m.discovered : x \in m.glitters
    THEN FALSE
    ELSE IF ~ \A x \in neighbours_of_all(m.wumpuses) \cap m.discovered : x \in m.stenches
    THEN FALSE
    ELSE IF ~ \A x \in neighbours_of_all(m.pits) \cap m.discovered : x \in m.breezes
    THEN FALSE
    ELSE IF ~ \A glitter \in m.glitters :
                \E neighbour \in { n \in get_neighbours(glitter) : encompass(m, n) } :
                    neighbour \in m.treasures
    THEN FALSE
    ELSE IF ~ \A stench \in m.stenches :
                \E neighbour \in { n \in get_neighbours(stench) : encompass(m, n) } :
                    neighbour \in m.wumpuses
    THEN FALSE
    ELSE IF ~ \A breeze \in m.breezes :
                \E neighbour \in { n \in get_neighbours(breeze) : encompass(m, n) } :
                    neighbour \in m.pits
    THEN FALSE
    ELSE TRUE

----------------------------------------------------------------------------
(* wumpus.rs and algorithms.rs: the enumeration of the map possibilities   *)

\* Class::VALUES, and the two classes tried on a candidate-treasure cell.
VALUES == <<"Empty", "Treasure", "Wumpus", "Pit">>
TreasureChoices == <<"Empty", "Treasure">>

\* Map::apply_classes: in the order of the slices, each location is taken out
\* of the three occupant sets and put into the set of its class.
RECURSIVE apply_classes(_, _, _)
apply_classes(m, locations, classes) ==
    IF locations = <<>> \/ classes = <<>>
    THEN m
    ELSE LET loc     == Head(locations)
             class   == Head(classes)
             cleared == [m EXCEPT !.treasures = @ \ {loc},
                                  !.wumpuses  = @ \ {loc},
                                  !.pits      = @ \ {loc}]
             placed  == CASE class = "Treasure" -> [cleared EXCEPT !.treasures = @ \cup {loc}]
                          [] class = "Wumpus"   -> [cleared EXCEPT !.wumpuses = @ \cup {loc}]
                          [] class = "Pit"      -> [cleared EXCEPT !.pits = @ \cup {loc}]
                          [] OTHER              -> cleared
         IN  apply_classes(placed, Tail(locations), Tail(classes))

RECURSIVE Power(_, _)
Power(b, n) == IF n = 0 THEN 1 ELSE b * Power(b, n - 1)

\* What multi_cartesian_product yields for zero factors depends on the
\* itertools release the crate is built with: one empty tuple (0.13 and
\* later) or nothing at all (before 0.13).  The sources do not pin a release.
NullaryProducts == { << <<>> >>, <<>> }

\* itertools::repeat_n(values, n).multi_cartesian_product(): the tuples of
\* length n over values, the last position varying fastest.
multi_cartesian_product(values, n, nullary) ==
    IF n = 0
    THEN nullary
    ELSE [k \in 1..Power(Len(values), n) |->
            [i \in 1..n |->
                values[(((k - 1) \div Power(Len(values), n - i)) % Len(values)) + 1]]]

\* ClassField<i32>::default()
DefaultClassField == [empty |-> 0, treasure |-> 0, wumpus |-> 0, pit |-> 0]

\* The match that counts one class, for the tallies of one location: each
\* arm has added one for every accepted permutation with its class there.
count_class(field, classes) ==
    [field EXCEPT
        !.empty    = @ + Cardinality({ j \in DOMAIN classes : classes[j] = "Empty" }),
        !.treasure = @ + Cardinality({ j \in DOMAIN classes : classes[j] = "Treasure" }),
        !.wumpus   = @ + Cardinality({ j \in DOMAIN classes : classes[j] = "Wumpus" }),
        !.pit      = @ + Cardinality({ j \in DOMAIN classes : classes[j] = "Pit" })]

\* calculate_map_possibilities(frontier, possible_treasures, map, blacklist).
\* The outer loop runs over the permutations of the candidate treasures, the
\* inner loop over those of the frontier.  Every permutation is applied to
\* the one clone tmp_map; apply_classes resets each listed location, so what
\* is_map_valid tests is the input map with the classes of the permutation
\* at hand.  counts is the HashMap collected from the locations in order, a
\* later entry replacing an earlier one.
calculate_map_possibilities(frontier, possible_treasures, m, bl, nullary) ==
    LET locations == frontier \o possible_treasures
        perm_treasures == multi_cartesian_product(TreasureChoices,
                                                  Len(possible_treasures), nullary)
        perm_frontier == multi_cartesian_product(VALUES, Len(frontier), nullary)
        perms == [j \in 1..(Len(perm_treasures) * Len(perm_frontier)) |->
                    perm_frontier[((j - 1) % Len(perm_frontier)) + 1]
                    \o perm_treasures[((j - 1) \div Len(perm_frontier)) + 1]]
        accepted == { j \in DOMAIN perms :
                        is_map_valid(apply_classes(m, locations, perms[j]), bl) }
        class_counts == [i \in DOMAIN locations |->
                            count_class(DefaultClassField,
                                        [j \in accepted |-> perms[j][i]])]
        last_index(cell) == CHOOSE i \in DOMAIN locations :
                               /\ locations[i] = cell
                               /\ \A k \in DOMAIN locations : locations[k] = cell => k <= i
    IN  [total_possibilities |-> Cardinality(accepted),
         counts |-> [l \in { locations[i] : i \in DOMAIN locations } |->
                        class_counts[last_index(l)]]]

----------------------------------------------------------------------------
(* wumpus.rs and algorithms.rs: the path search                            *)

rotate_back(d) ==
    CASE d = "East"  -> "West"
      [] d = "South" -> "North"
      [] d = "West"  -> "East"
      [] d = "North" -> "South"

\* Coordinate::get_relative_direction; "None" stands for Option::None.
get_relative_direction(c, loc) ==
    IF      loc = get_front(c, "East")  THEN "East"
    ELSE IF loc = get_front(c, "North") THEN "North"
    ELSE IF loc = get_front(c, "West")  THEN "West"
    ELSE IF loc = get_front(c, "South") THEN "South"
    ELSE "None"

I32_MAX == 2147483647

\* The orders in which the HashSet returned by get_neighbours can be iterated.
neighbour_orders(c) ==
    { p \in [1..4 -> get_neighbours(c)] :
        \A n \in get_neighbours(c) : \E i \in 1..4 : p[i] = n }

\* The candidate cost of a step that pays four back instead of charging one.
new_cost_refund(st, current_location, new_location, m) ==
    LET relative_direction == get_relative_direction(current_location, new_location)
    IN  st.costs[current_location]
        + (IF new_location \in m.wumpuses THEN 0 - SCORE_WUMPUS ELSE 0)
        + (IF new_location \in m.pits THEN 0 - SCORE_PIT ELSE 0)
        + (IF relative_direction = rotate_right(st.dirs[current_location]) THEN 1 ELSE 0)
        + (IF relative_direction = rotate_left(st.dirs[current_location]) THEN 1 ELSE 0)
        + (IF relative_direction = rotate_back(st.dirs[current_location]) THEN 2 ELSE 0)
        - 4

\* The candidate cost of a step that charges two for the step itself.
new_cost_double_step(st, current_location, new_location, m) ==
    LET relative_direction == get_relative_direction(current_location, new_location)
    IN  st.costs[current_location]
        + (IF new_location \in m.wumpuses THEN 0 - SCORE_WUMPUS ELSE 0)
        + (IF new_location \in m.pits THEN 0 - SCORE_PIT ELSE 0)
        + (IF relative_direction = rotate_right(st.dirs[current_location]) THEN 1 ELSE 0)
        + (IF relative_direction = rotate_left(st.dirs[current_location]) THEN 1 ELSE 0)
        + (IF relative_direction = rotate_back(st.dirs[current_location]) THEN 2 ELSE 0)
        + 2

\* The candidate cost of stepping from current_location to new_location.
new_cost(st, current_location, new_location, m) ==
    LET relative_direction == get_relative_direction(current_location, new_location)
    IN  st.costs[current_location]
        + (IF new_location \in m.wumpuses THEN 0 - SCORE_WUMPUS ELSE 0)
        + (IF new_location \in m.pits THEN 0 - SCORE_PIT ELSE 0)
        + (IF relative_direction = rotate_right(st.dirs[current_location]) THEN 1 ELSE 0)
        + (IF relative_direction = rotate_left(st.dirs[current_location]) THEN 1 ELSE 0)
        + (IF relative_direction = rotate_back(st.dirs[current_location]) THEN 2 ELSE 0)
        + 1

SeqRange(s) == { s[i] : i \in DOMAIN s }

\* HashMap::insert
insert(f, k, v) == [x \in DOMAIN f \cup {k} |-> IF x = k THEN v ELSE f[x]]

\* The test for the queue letting in every cell not yet linked.
is_available_undiscovered_too(st, new_location, m) ==
    new_location \notin DOMAIN st.links

\* The test that puts a neighbour on the queue: it is available and has not
\* been evaluated yet.
is_available(st, new_location, m) ==
    new_location \in m.discovered /\ new_location \notin DOMAIN st.links

\* The body of the for loop over the neighbours of current_location, run
\* over the neighbours left in the order of iteration.  The state of the
\* search carries three records of its history besides the locals of the
\* code: expanded, the cells dequeued so far in order, rewritten, the cells
\* whose entry was replaced by a relaxation, and stale, those of them whose
\* entry was replaced after they had been dequeued.
RECURSIVE visit_neighbours(_, _, _, _)
visit_neighbours(st, current_location, order, m) ==
    IF order = <<>>
    THEN st
    ELSE LET new_location == Head(order)
             queued == IF is_available(st, new_location, m)
                       THEN [st EXCEPT !.queue = Append(@, new_location)]
                       ELSE st
             known_cost == IF new_location \in DOMAIN st.costs
                           THEN st.costs[new_location]
                           ELSE I32_MAX
             cost == new_cost(st, current_location, new_location, m)
             relaxed == IF cost < known_cost
                        THEN [queued EXCEPT
                                !.links = insert(@, new_location, current_location),
                                !.dirs  = insert(@, new_location,
                                            get_relative_direction(current_location, new_location)),
                                !.costs = insert(@, new_location, cost),
                                !.rewritten = IF new_location \in DOMAIN st.costs
                                              THEN @ \cup {new_location}
                                              ELSE @,
                                !.stale = IF new_location \in SeqRange(st.expanded)
                                          THEN @ \cup {new_location}
                                          ELSE @]
                        ELSE queued
         IN  IF ~ encompass(m, new_location)
             THEN visit_neighbours(st, current_location, Tail(order), m)
             ELSE visit_neighbours(relaxed, current_location, Tail(order), m)

\* The while loop run from each of the given states of the search, with
\* every order of iteration of every neighbour set: the states it can end in.
RECURSIVE run_queue(_, _)
run_queue(states, m) ==
    IF \A st \in states : st.queue = <<>>
    THEN states
    ELSE run_queue(
            { st \in states : st.queue = <<>> }
            \cup UNION { { visit_neighbours([st EXCEPT !.queue = Tail(@),
                                                       !.expanded = Append(@, Head(st.queue))],
                                            Head(st.queue), order, m) :
                            order \in neighbour_orders(Head(st.queue)) } :
                         st \in { s \in states : s.queue # <<>> } },
            m)

\* The states the search of pathfind can end in.
search(initial_location, initial_direction, m) ==
    run_queue({ [links |-> [x \in {initial_location} |-> initial_location],
                 dirs  |-> [x \in {initial_location} |-> initial_direction],
                 costs |-> [x \in {initial_location} |-> 0],
                 queue |-> <<initial_location>>,
                 expanded |-> <<>>,
                 rewritten |-> {},
                 stale |-> {}] }, m)

\* pathfind(initial_location, initial_direction, map): the pairs
\* (links, costs) it can return.
pathfind(initial_location, initial_direction, m) ==
    { [links |-> st.links, costs |-> st.costs] :
        st \in search(initial_location, initial_direction, m) }

\* The while loop of path_to_actions: the chain of locations from the
\* target back along the links, target first.  On links that lead back to a
\* cell already on the chain the loop never ends; the chain is then cut
\* where it closes and marked.
RECURSIVE build_path(_, _)
build_path(path, pathmap) ==
    LET loc == path[Len(path)]
    IN  IF loc \notin DOMAIN pathmap \/ pathmap[loc] = loc
        THEN [path |-> path, ends |-> TRUE]
        ELSE IF \E i \in DOMAIN path : path[i] = pathmap[loc]
        THEN [path |-> path, ends |-> FALSE]
        ELSE build_path(Append(path, pathmap[loc]), pathmap)

reverse(s) == [i \in DOMAIN s |-> s[Len(s) + 1 - i]]

\* The for loop of path_to_actions comparing every step with the initial
\* direction: the facing is not updated after a step.
RECURSIVE emit_actions_initial_facing(_, _, _, _)
emit_actions_initial_facing(actions, loc, dir, path) ==
    IF path = <<>>
    THEN actions
    ELSE LET new_location  == Head(path)
             new_direction == get_relative_direction(loc, new_location)
             turned == actions
                       \o (IF new_direction = rotate_back(dir) THEN <<"Right", "Right">> ELSE <<>>)
                       \o (IF new_direction = rotate_right(dir) THEN <<"Right">> ELSE <<>>)
                       \o (IF new_direction = rotate_left(dir) THEN <<"Left">> ELSE <<>>)
         IN  IF new_location = loc
             THEN emit_actions_initial_facing(actions, loc, dir, Tail(path))
             ELSE emit_actions_initial_facing(Append(turned, "Walk"), new_location, dir, Tail(path))

\* The for loop of path_to_actions over the cells left of the reversed path.
RECURSIVE emit_actions(_, _, _, _)
emit_actions(actions, loc, dir, path) ==
    IF path = <<>>
    THEN actions
    ELSE LET new_location  == Head(path)
             new_direction == get_relative_direction(loc, new_location)
             turned == actions
                       \o (IF new_direction = rotate_back(dir) THEN <<"Right", "Right">> ELSE <<>>)
                       \o (IF new_direction = rotate_right(dir) THEN <<"Right">> ELSE <<>>)
                       \o (IF new_direction = rotate_left(dir) THEN <<"Left">> ELSE <<>>)
         IN  IF new_location = loc
             THEN emit_actions(actions, loc, dir, Tail(path))
             ELSE emit_actions(Append(turned, "Walk"), new_location, new_direction, Tail(path))

\* path_to_actions answering an unknown target with an empty plan.
path_to_actions_empty_plan(target, initial_direction, pathmap) ==
    IF target \notin DOMAIN pathmap
    THEN [some |-> TRUE, ends |-> TRUE, actions |-> <<>>]
    ELSE LET built == build_path(<<target>>, pathmap)
             path  == reverse(built.path)
         IN  IF ~ built.ends
             THEN [some |-> FALSE, ends |-> FALSE, actions |-> <<>>]
             ELSE [some |-> TRUE, ends |-> TRUE,
                   actions |-> emit_actions(<<>>, path[1], initial_direction, path)]

\* path_to_actions(target, initial_direction, pathmap).  An Option is a
\* record: some is FALSE for None; ends is FALSE where the code would not
\* return at all.
path_to_actions(target, initial_direction, pathmap) ==
    IF target \notin DOMAIN pathmap
    THEN [some |-> FALSE, ends |-> TRUE, actions |-> <<>>]
    ELSE LET built == build_path(<<target>>, pathmap)
             path  == reverse(built.path)
         IN  IF ~ built.ends
             THEN [some |-> FALSE, ends |-> FALSE, actions |-> <<>>]
             ELSE [some |-> TRUE, ends |-> TRUE,
                   actions |-> emit_actions(<<>>, path[1], initial_direction, path)]

----------------------------------------------------------------------------
(* models.rs: the f64 arithmetic of ModelBayes                              *)

\* An f64 is modelled by its exact value: a reduced fraction n/d with d > 0,
\* or one of the two infinities (n is the sign), or NaN.  The values of the
\* program are quotients of small integers, so two of them that differ are
\* told apart by the rounded values as well; where two exact values are
\* equal the rounded ones may differ in the last place, and the comparisons
\* below that such a difference can turn are left open (a choice).
NaN == [k |-> "nan", n |-> 0, d |-> 0]
Inf(s) == [k |-> "inf", n |-> s, d |-> 0]

Abs(i) == IF i < 0 THEN 0 - i ELSE i
Sign(i) == IF i < 0 THEN 0 - 1 ELSE 1

RECURSIVE GCD(_, _)
GCD(a, b) == IF b = 0 THEN a ELSE GCD(b, a % b)

\* The fraction n/d (d # 0) in lowest terms with a positive denominator.
Num(n, d) ==
    LET g == GCD(Abs(n), Abs(d))
    IN  [k |-> "num", n |-> Sign(d) * (n \div g), d |-> Abs(d) \div g]

\* i32 as f64 (.into()).
F64(i) == [k |-> "num", n |-> i, d |-> 1]

f64_neg(x) == IF x.k = "nan" THEN x ELSE [x EXCEPT !.n = 0 - @]

f64_mul(x, y) ==
    IF x.k = "nan" \/ y.k = "nan" THEN NaN
    ELSE IF x.k = "inf" \/ y.k = "inf"
    THEN IF x.n = 0 \/ y.n = 0 THEN NaN ELSE Inf(Sign(x.n) * Sign(y.n))
    ELSE LET g1 == GCD(Abs(x.n), y.d)
             g2 == GCD(Abs(y.n), x.d)
         IN  Num((x.n \div g1) * (y.n \div g2), (x.d \div g2) * (y.d \div g1))

f64_div(x, y) ==
    IF x.k = "nan" \/ y.k = "nan" THEN NaN
    ELSE IF x.k = "inf"
    THEN IF y.k = "inf" THEN NaN ELSE Inf(x.n * Sign(y.n))
    ELSE IF y.k = "inf" THEN F64(0)
    ELSE IF y.n = 0
    THEN IF x.n = 0 THEN NaN ELSE Inf(Sign(x.n))
    ELSE f64_mul(x, Num(y.d, y.n))

f64_add(x, y) ==
    IF x.k = "nan" \/ y.k = "nan" THEN NaN
    ELSE IF x.k = "inf"
    THEN IF y.k = "inf" /\ y.n # x.n THEN NaN ELSE x
    ELSE IF y.k = "inf" THEN y
    ELSE LET g == GCD(x.d, y.d)
         IN  Num(x.n * (y.d \div g) + y.n * (x.d \div g), (x.d \div g) * y.d)

f64_sub(x, y) == f64_add(x, f64_neg(y))

\* The order of two fractions a/b and c/d with a, c >= 0 and b, d > 0, by
\* their continued fractions.
RECURSIVE compare_fractions(_, _, _, _)
compare_fractions(a, b, c, d) ==
    IF (a \div b) # (c \div d)
    THEN IF (a \div b) < (c \div d) THEN "Less" ELSE "Greater"
    ELSE IF a % b = 0 /\ c % d = 0 THEN "Equal"
    ELSE IF a % b = 0 THEN "Less"
    ELSE IF c % d = 0 THEN "Greater"
    ELSE compare_fractions(d, c % d, b, a % b)

\* f64::partial_cmp: "None" where one of the two is NaN.
partial_cmp(x, y) ==
    IF x.k = "nan" \/ y.k = "nan" THEN "None"
    ELSE IF x.k = "inf" \/ y.k = "inf"
    THEN IF x.k = y.k /\ x.n = y.n THEN "Equal"
         ELSE IF (x.k = "inf" /\ x.n < 0) \/ (y.k = "inf" /\ y.n > 0) THEN "Less"
         ELSE "Greater"
    ELSE IF x.n < 0 /\ y.n >= 0 THEN "Less"
    ELSE IF x.n >= 0 /\ y.n < 0 THEN "Greater"
    ELSE IF x.n >= 0 THEN compare_fractions(x.n, x.d, y.n, y.d)
    ELSE compare_fractions(0 - y.n, y.d, 0 - x.n, x.d)

----------------------------------------------------------------------------
(* wumpus.rs and models.rs: ModelBayes                                      *)

\* Map::get_frontier
get_frontier(m) ==
    { neighbour \in neighbours_of_all(m.discovered) :
        encompass(m, neighbour) /\ neighbour \notin m.discovered }

\* A HashSet collected into a Vec: the cells in one order of iteration.
RECURSIVE collect(_)
collect(cells) ==
    IF cells = {}
    THEN <<>>
    ELSE LET first == CHOOSE c \in cells :
                        \A o \in cells : CellIndex(c) <= CellIndex(o)
         IN  <<first>> \o collect(cells \ {first})

\* ModelBayes::default(), with its blacklist kept apart.
DefaultModelBayes ==
    [treasures_found |-> 0, wumpuses_killed |-> 0, action_queue |-> <<>>]

\* ModelBayes::naive_bayes_classifier
naive_bayes_classifier(c, n, i, a) ==
    LET prior      == f64_div(c, n)
        likelihood == f64_div(i, a)
        evidence   == f64_add(f64_mul(prior, likelihood),
                              f64_mul(f64_sub(F64(1), prior),
                                      f64_sub(F64(1), likelihood)))
    IN  f64_div(f64_mul(prior, likelihood), evidence)

\* The candidate-treasure cells of ModelBayes::run.
possible_treasures_of(m) ==
    { loc \in neighbours_of_all(m.glitters) :
        /\ loc \notin m.wumpuses
        /\ loc \notin m.pits
        /\ loc \in m.discovered }

\* The class probabilities of ModelBayes::run from the class statistics and
\* the tallies of the enumeration.
class_probabilities(model, m, total_map_possibilities, class_counts) ==
    LET map_size          == SIZE_X * SIZE_Y
        undiscovered_left == map_size - Cardinality(m.discovered)
        treasures_left    == COUNT_TREASURES - Cardinality(m.treasures)
                             - model.treasures_found
        wumpuses_left     == COUNT_WUMPUSES - Cardinality(m.wumpuses)
                             - model.wumpuses_killed
        pits_left         == COUNT_PITS - Cardinality(m.pits)
        empties_left      == undiscovered_left - treasures_left
                             - wumpuses_left - pits_left
    IN  [loc \in DOMAIN class_counts |->
            [empty    |-> naive_bayes_classifier(F64(empties_left),
                              F64(undiscovered_left),
                              F64(class_counts[loc].empty),
                              F64(total_map_possibilities)),
             treasure |-> naive_bayes_classifier(F64(treasures_left),
                              F64(undiscovered_left),
                              F64(class_counts[loc].treasure),
                              F64(total_map_possibilities)),
             wumpus   |-> naive_bayes_classifier(F64(wumpuses_left),
                              F64(undiscovered_left),
                              F64(class_counts[loc].wumpus),
                              F64(total_map_possibilities)),
             pit      |-> naive_bayes_classifier(F64(pits_left),
                              F64(undiscovered_left),
                              F64(class_counts[loc].pit),
                              F64(total_map_possibilities))]]

\* The closure get_score of ModelBayes::run.
get_score(classes, path_costs, loc) ==
    LET class  == classes[loc]
        safety == f64_sub(F64(1),
                          IF class.wumpus.k = "nan" \/ class.wumpus.n # 0
                          THEN Num(9999, 10000)
                          ELSE class.pit)
        cost   == f64_div(F64(1), F64(path_costs[loc] + 20))
    IN  f64_mul(cost, safety)

\* What a call of run leaves behind: the fields of the model, its
\* blacklist, the action returned, and the panic that ended the call
\* instead ("none" where it returned).  The other fields record the call:
\* the branch taken, its target, and the inputs and the total of the
\* enumeration.
Outcome(model, bl, action, panic, branch, target, estimate) ==
    [model |-> model, blacklist |-> bl, action |-> action, panic |-> panic,
     branch |-> branch, target |-> target, estimate |-> estimate]

NoEstimate == [ran |-> FALSE, frontier |-> {}, possible_treasures |-> {},
               blacklist |-> EmptyBlacklist, total_possibilities |-> 0]

\* The end of a branch of run: the plan to the target is unwrapped and put
\* on the queue, without its last action where drop_last is set (pop_back),
\* tail is pushed behind it, and the first action of the queue is popped.
plan_and_pop(model, bl, branch, target, estimate, initial_direction, path_map, tail, drop_last) ==
    LET plan == path_to_actions(target, initial_direction, path_map)
        kept == IF drop_last /\ plan.actions # <<>>
                THEN SubSeq(plan.actions, 1, Len(plan.actions) - 1)
                ELSE plan.actions
        queue == model.action_queue \o kept \o tail
    IN  IF ~ plan.ends
        THEN Outcome(model, bl, "none", "hang", branch, target, estimate)
        ELSE IF ~ plan.some
        THEN Outcome(model, bl, "none", "unwrap", branch, target, estimate)
        ELSE IF queue = <<>>
        THEN Outcome([model EXCEPT !.action_queue = queue], bl,
                     "none", "unwrap", branch, target, estimate)
        ELSE Outcome([model EXCEPT !.action_queue = Tail(queue)], bl,
                     Head(queue), "none", branch, target, estimate)

\* The cells min_by_key(path_costs[l]) can return from the cells given.
min_by_cost(cells, path_costs) ==
    { l \in cells : \A o \in cells : path_costs[l] <= path_costs[o] }

\* The target selection of ModelBayes::run, for one result of pathfind: the
\* outcomes it can have.  An index into path_costs with a missing key
\* panics, and so does the unwrap of a partial_cmp that has met a NaN
\* (max_by compares every score where there are two or more).  A treasure
\* probability of exactly one quarter can pass the test or fail it, and
\* among equal scores or costs the order of iteration of the HashMap
\* decides.
select_target(model, bl, game, path, classes, estimate) ==
    LET quarter   == Num(1, 4)
        surely    == { l \in DOMAIN classes :
                         partial_cmp(classes[l].treasure, quarter) = "Greater" }
        perhaps   == { l \in DOMAIN classes :
                         partial_cmp(classes[l].treasure, quarter) = "Equal" }
        certain   == { l \in DOMAIN classes :
                         partial_cmp(classes[l].wumpus, F64(1)) = "Equal" }
        unknown   == { l \in DOMAIN classes : l \notin game.map.discovered }
        missing(cells) == \E l \in cells : l \notin DOMAIN path.costs
        dig(treasures) ==
            IF missing(treasures)
            THEN { Outcome(model, bl, "none", "index", "treasure", "none", estimate) }
            ELSE { plan_and_pop(model, insert(bl, treasure, "Treasure"), "treasure",
                                treasure, estimate, game.direction, path.links,
                                <<"Dig">>, FALSE) :
                     treasure \in min_by_cost(treasures, path.costs) }
        shoot ==
            IF missing(certain)
            THEN { Outcome(model, bl, "none", "index", "wumpus", "none", estimate) }
            ELSE { plan_and_pop(model, insert(bl, wumpus, "Wumpus"), "wumpus",
                                wumpus, estimate, game.direction, path.links,
                                <<"Shoot">>, TRUE) :
                     wumpus \in min_by_cost(certain, path.costs) }
        scores == [l \in unknown |-> get_score(classes, path.costs, l)]
        explore ==
            IF unknown = {}
            THEN { Outcome(model, bl, "none", "unreachable", "none", "none", estimate) }
            ELSE IF missing(unknown)
            THEN { Outcome(model, bl, "none", "index", "explore", "none", estimate) }
            ELSE IF Cardinality(unknown) > 1 /\ \E l \in unknown : scores[l].k = "nan"
            THEN { Outcome(model, bl, "none", "unwrap", "explore", "none", estimate) }
            ELSE { plan_and_pop(model, bl, "explore", l, estimate,
                                game.direction, path.links, <<>>, FALSE) :
                     l \in { c \in unknown :
                               \A o \in unknown :
                                   partial_cmp(scores[c], scores[o]) # "Less" } }
        undug == IF certain # {} THEN shoot ELSE explore
    IN  UNION { IF surely \cup some = {} THEN undug ELSE dig(surely \cup some) :
                some \in SUBSET perhaps }

\* ModelBayes::run(game): the outcomes the call can have, given the fields
\* of the model, its blacklist and what a zero-factor product yields in
\* the build.
ModelBayes_run(model, bl, game, nullary) ==
    LET remembered ==
            [model EXCEPT
                !.treasures_found = IF game.events.treasure THEN @ + 1 ELSE @,
                !.wumpuses_killed = IF game.events.scream THEN @ + 1 ELSE @]
        frontier == collect(get_frontier(game.map))
        possible_treasures == collect(possible_treasures_of(game.map))
        counted == calculate_map_possibilities(frontier, possible_treasures,
                                               game.map, bl, nullary)
        classes == class_probabilities(remembered, game.map,
                                       counted.total_possibilities, counted.counts)
        estimate == [ran |-> TRUE,
                     frontier |-> SeqRange(frontier),
                     possible_treasures |-> SeqRange(possible_treasures),
                     blacklist |-> bl,
                     total_possibilities |-> counted.total_possibilities]
    IN  IF remembered.action_queue # <<>>
        THEN { Outcome([remembered EXCEPT !.action_queue = Tail(@)], bl,
                       Head(remembered.action_queue), "none", "queue", "none",
                       NoEstimate) }
        ELSE UNION { select_target(remembered, bl, game, path, classes, estimate) :
                       path \in pathfind(game.location, game.direction, game.map) }

----------------------------------------------------------------------------
(* The game played through the server loop: new_random, then one do_action  *)
(* per received action.                                                     *)

NoTurns(d) == [kind |-> "none", n |-> 0, from |-> d]

NoFalls == [c \in SampleSpace |-> 0]

Init ==
    /\ \E special_locations \in SpecialLocations :
         LET g == new_random(special_locations)
         IN  /\ map       = g.map
             /\ location  = g.location
             /\ direction = g.direction
             /\ events    = g.events
             /\ game_over = g.game_over
             /\ score     = g.score
             /\ arrows    = g.arrows
    /\ actions_done = 0
    /\ killed = {}
    /\ falls = NoFalls
    /\ turns = NoTurns("East")
    /\ last_call = [op |-> "new_random", arg |-> "none", over |-> FALSE]
    /\ blacklist = EmptyBlacklist
    /\ args = "none"
    /\ result = "none"

\* game.do_action(action) in the loop of handle_client, with the history.
DoAction(action) ==
    /\ LET g == do_action(Game, action)
       IN  /\ map'       = g.map
           /\ location'  = g.location
           /\ direction' = g.direction
           /\ events'    = g.events
           /\ game_over' = g.game_over
           /\ score'     = g.score
           /\ arrows'    = g.arrows
           /\ killed'    = killed \cup (map.wumpuses \ g.map.wumpuses)
           /\ falls'     = IF action = "Walk" /\ g.location # location
                              /\ g.location \in g.map.pits
                           THEN [falls EXCEPT ![g.location] = @ + 1]
                           ELSE falls
           /\ turns'     = IF ~game_over /\ action \in {"Left", "Right"}
                           THEN IF turns.kind = action
                                THEN [turns EXCEPT !.n = @ + 1]
                                ELSE [kind |-> action, n |-> 1, from |-> direction]
                           ELSE NoTurns(g.direction)
    /\ actions_done' = actions_done + 1
    /\ last_call' = [op |-> "do_action", arg |-> action, over |-> game_over]

\* The same, in a loop cut after MaxActions actions.
StepGame(action) ==
    /\ actions_done < MaxActions
    /\ DoAction(action)

\* One iteration of the loop of handle_client: game.do_action(action).
Step(action) ==
    /\ StepGame(action)
    /\ UNCHANGED <<blacklist, args, result>>

Walk  == Step("Walk")
Left  == Step("Left")
Right == Step("Right")
Dig   == Step("Dig")
Shoot == Step("Shoot")

Next == Walk \/ Left \/ Right \/ Dig \/ Shoot

Spec == Init /\ [][Next]_vars

----------------------------------------------------------------------------
(* The server loop with the snapshot it sends: each iteration hides a clone *)
(* of the game's map, then applies the action it receives.                  *)

\* The first iteration up to the send: hidden_game = game.clone();
\* hide_map(&mut hidden_game.map).
FirstSnapshot ==
    /\ last_call.op = "new_random"
    /\ result' = hide_map(map)
    /\ last_call' = [op |-> "hide_map", arg |-> "none", over |-> game_over]
    /\ UNCHANGED <<map, location, direction, events, game_over, score, arrows,
                   actions_done, killed, falls, turns, blacklist, args>>

\* From the receive of one iteration to the send of the next:
\* game.do_action(action), then the clone is hidden.
Serve(action) ==
    /\ last_call.op # "new_random"
    /\ StepGame(action)
    /\ result' = hide_map(map')
    /\ UNCHANGED <<blacklist, args>>

ServeWalk  == Serve("Walk")
ServeLeft  == Serve("Left")
ServeRight == Serve("Right")
ServeDig   == Serve("Dig")
ServeShoot == Serve("Shoot")

NextServer ==
    \/ FirstSnapshot
    \/ ServeWalk \/ ServeLeft \/ ServeRight \/ ServeDig \/ ServeShoot

SpecServer == Init /\ [][NextServer]_vars

----------------------------------------------------------------------------
(* The Map API called directly on an empty Map.                             *)

MapOpLocations == { c \in SampleSpace : CellIndex(c) < MapOpCells }

InitMap ==
    /\ map       = DefaultMap
    /\ location  = DefaultGame.location
    /\ direction = DefaultGame.direction
    /\ events    = DefaultGame.events
    /\ game_over = DefaultGame.game_over
    /\ score     = DefaultGame.score
    /\ arrows    = DefaultGame.arrows
    /\ actions_done = 0
    /\ killed = {}
    /\ falls = NoFalls
    /\ turns = NoTurns("East")
    /\ last_call = [op |-> "default", arg |-> "none", over |-> FALSE]
    /\ blacklist = EmptyBlacklist
    /\ args = "none"
    /\ result = "none"

MapCall(op, loc, m) ==
    /\ map' = m
    /\ last_call' = [op |-> op, arg |-> loc, over |-> FALSE]
    /\ UNCHANGED <<location, direction, events, game_over, score, arrows,
                   actions_done, killed, falls, turns, blacklist, args, result>>

AddTreasure    == \E loc \in MapOpLocations : MapCall("add_treasure", loc, add_treasure(map, loc))
AddWumpus      == \E loc \in MapOpLocations : MapCall("add_wumpus", loc, add_wumpus(map, loc))
AddPit         == \E loc \in MapOpLocations : MapCall("add_pit", loc, add_pit(map, loc))
RemoveTreasure == \E loc \in MapOpLocations : MapCall("remove_treasure", loc, remove_treasure(map, loc))
RemoveWumpus   == \E loc \in MapOpLocations : MapCall("remove_wumpus", loc, remove_wumpus(map, loc))
RemovePit      == \E loc \in MapOpLocations : MapCall("remove_pit", loc, remove_pit(map, loc))

NextMap ==
    \/ AddTreasure \/ AddWumpus \/ AddPit
    \/ RemoveTreasure \/ RemoveWumpus \/ RemovePit

SpecMap == InitMap /\ [][NextMap]_vars

----------------------------------------------------------------------------
(* is_map_valid called on maps and blacklists built one entry at a time.    *)

\* The cells the hypothetical occupants are put on: four cells of the map
\* and one cell outside it.
OccupantCells == { Coord(0, 0), Coord(1, 0), Coord(0, 1), Coord(1, 1), Coord(0, 0 - 1) }

\* The cells the markers are put on: two cells of the map and one outside.
MarkedCells == { Coord(0, 0), Coord(1, 0), Coord(0 - 1, 0) }

\* The cells marked discovered, and the cells blacklisted.
KnownCells == { Coord(0, 0), Coord(1, 0) }

Class == {"Empty", "Treasure", "Wumpus", "Pit"}

\* The number of entries of the map's sets and of the blacklist.
ItemCount ==
    Cardinality(map.treasures) + Cardinality(map.wumpuses) + Cardinality(map.pits)
    + Cardinality(map.glitters) + Cardinality(map.stenches) + Cardinality(map.breezes)
    + Cardinality(map.discovered) + Cardinality(DOMAIN blacklist)

\* The frame of a step that prepares the arguments of a call.
Prepare(m, bl) ==
    /\ ItemCount < MaxItems
    /\ map' = m
    /\ blacklist' = bl
    /\ args' = "none"
    /\ result' = "none"
    /\ last_call' = [op |-> "prepare", arg |-> "none", over |-> FALSE]
    /\ UNCHANGED <<location, direction, events, game_over, score, arrows,
                   actions_done, killed, falls, turns>>

PutTreasure   == \E c \in OccupantCells \ map.treasures :
                    Prepare([map EXCEPT !.treasures = @ \cup {c}], blacklist)
PutWumpus     == \E c \in OccupantCells \ map.wumpuses :
                    Prepare([map EXCEPT !.wumpuses = @ \cup {c}], blacklist)
PutPit        == \E c \in OccupantCells \ map.pits :
                    Prepare([map EXCEPT !.pits = @ \cup {c}], blacklist)
PutGlitter    == \E c \in MarkedCells \ map.glitters :
                    Prepare([map EXCEPT !.glitters = @ \cup {c}], blacklist)
PutStench     == \E c \in MarkedCells \ map.stenches :
                    Prepare([map EXCEPT !.stenches = @ \cup {c}], blacklist)
PutBreeze     == \E c \in MarkedCells \ map.breezes :
                    Prepare([map EXCEPT !.breezes = @ \cup {c}], blacklist)
PutDiscovered == \E c \in KnownCells \ map.discovered :
                    Prepare([map EXCEPT !.discovered = @ \cup {c}], blacklist)
PutBlacklist  == \E c \in KnownCells \ DOMAIN blacklist, class \in Class :
                    Prepare(map, [l \in DOMAIN blacklist \cup {c} |->
                                    IF l = c THEN class ELSE blacklist[l]])

\* is_map_valid(&map, &blacklist)
CallIsMapValid ==
    /\ result' = is_map_valid(map, blacklist)
    /\ last_call' = [op |-> "is_map_valid", arg |-> "none", over |-> FALSE]
    /\ UNCHANGED <<map, location, direction, events, game_over, score, arrows,
                   actions_done, killed, falls, turns, blacklist, args>>

NextValid ==
    \/ PutTreasure \/ PutWumpus \/ PutPit
    \/ PutGlitter \/ PutStench \/ PutBreeze
    \/ PutDiscovered \/ PutBlacklist
    \/ CallIsMapValid

SpecValid == InitMap /\ [][NextValid]_vars

----------------------------------------------------------------------------
(* calculate_map_possibilities called on maps, blacklists and cell lists   *)
(* built one entry at a time.                                              *)

\* The cell the hypothetical occupants and the blacklist entry are put on.
PossOccupantCells == { Coord(1, 1) }

\* The cells offered as frontier and as candidate treasures; (1,1) is in both.
FrontierCells  == { Coord(0, 1), Coord(1, 1) }
CandidateCells == { Coord(1, 0), Coord(1, 1) }

InitPoss ==
    /\ map       = DefaultMap
    /\ location  = DefaultGame.location
    /\ direction = DefaultGame.direction
    /\ events    = DefaultGame.events
    /\ game_over = DefaultGame.game_over
    /\ score     = DefaultGame.score
    /\ arrows    = DefaultGame.arrows
    /\ actions_done = 0
    /\ killed = {}
    /\ falls = NoFalls
    /\ turns = NoTurns("East")
    /\ last_call = [op |-> "default", arg |-> "none", over |-> FALSE]
    /\ blacklist = EmptyBlacklist
    /\ args = [frontier |-> <<>>, possible_treasures |-> <<>>]
    /\ result = "none"

\* The frame of a step that prepares the map or the blacklist of a call.
PreparePoss(m, bl) ==
    /\ ItemCount < MaxPossItems
    /\ map' = m
    /\ blacklist' = bl
    /\ result' = "none"
    /\ last_call' = [op |-> "prepare", arg |-> "none", over |-> FALSE]
    /\ UNCHANGED <<location, direction, events, game_over, score, arrows,
                   actions_done, killed, falls, turns, args>>

\* The frame of a step that extends one of the two cell lists of a call.
PrepareList(a) ==
    /\ Len(args.frontier) + Len(args.possible_treasures) < MaxListed
    /\ args' = a
    /\ result' = "none"
    /\ last_call' = [op |-> "prepare", arg |-> "none", over |-> FALSE]
    /\ UNCHANGED <<map, location, direction, events, game_over, score, arrows,
                   actions_done, killed, falls, turns, blacklist>>

PossTreasure   == \E c \in PossOccupantCells \ map.treasures :
                     PreparePoss([map EXCEPT !.treasures = @ \cup {c}], blacklist)
PossWumpus     == \E c \in PossOccupantCells \ map.wumpuses :
                     PreparePoss([map EXCEPT !.wumpuses = @ \cup {c}], blacklist)
PossPit        == \E c \in PossOccupantCells \ map.pits :
                     PreparePoss([map EXCEPT !.pits = @ \cup {c}], blacklist)
PossGlitter    == \E c \in KnownCells \ map.glitters :
                     PreparePoss([map EXCEPT !.glitters = @ \cup {c}], blacklist)
PossStench     == \E c \in KnownCells \ map.stenches :
                     PreparePoss([map EXCEPT !.stenches = @ \cup {c}], blacklist)
PossBreeze     == \E c \in KnownCells \ map.breezes :
                     PreparePoss([map EXCEPT !.breezes = @ \cup {c}], blacklist)
PossDiscovered == \E c \in KnownCells \ map.discovered :
                     PreparePoss([map EXCEPT !.discovered = @ \cup {c}], blacklist)
PossBlacklist  == \E c \in PossOccupantCells \ DOMAIN blacklist, class \in Class :
                     PreparePoss(map, [l \in DOMAIN blacklist \cup {c} |->
                                         IF l = c THEN class ELSE blacklist[l]])
PushFrontier   == \E c \in FrontierCells \ SeqRange(args.frontier) :
                     PrepareList([args EXCEPT !.frontier = Append(@, c)])
PushCandidate  == \E c \in CandidateCells \ SeqRange(args.possible_treasures) :
                     PrepareList([args EXCEPT !.possible_treasures = Append(@, c)])

\* calculate_map_possibilities(&frontier, &possible_treasures, &map, &blacklist)
CallCalculateMapPossibilities ==
    \E nullary \in NullaryProducts :
        /\ result' = calculate_map_possibilities(args.frontier, args.possible_treasures,
                                                 map, blacklist, nullary)
        /\ last_call' = [op |-> "calculate_map_possibilities", arg |-> nullary,
                         over |-> FALSE]
        /\ UNCHANGED <<map, location, direction, events, game_over, score, arrows,
                       actions_done, killed, falls, turns, blacklist, args>>

NextPoss ==
    \/ PossTreasure \/ PossWumpus \/ PossPit
    \/ PossGlitter \/ PossStench \/ PossBreeze
    \/ PossDiscovered \/ PossBlacklist
    \/ PushFrontier \/ PushCandidate
    \/ CallCalculateMapPossibilities

SpecPoss == InitPoss /\ [][NextPoss]_vars

----------------------------------------------------------------------------
(* pathfind and path_to_actions called from start poses on maps built one  *)
(* entry at a time.                                                        *)

\* The cells marked discovered, and the cells the hazards are put on.
PathCells   == { Coord(1, 0), Coord(2, 0), Coord(0, 1), Coord(1, 1), Coord(2, 1) }
WumpusCells == { Coord(1, 0), Coord(3, 0) }
PitCells    == { Coord(1, 0) }

\* The cells the search is started from.
StartCells == { Coord(0, 0), Coord(1, 1) }

\* The frame of a step that prepares the arguments of a call of pathfind.
PreparePath(m, loc, dir) ==
    /\ last_call.op \in {"default", "prepare"}
    /\ map' = m
    /\ location' = loc
    /\ direction' = dir
    /\ args' = "none"
    /\ result' = "none"
    /\ last_call' = [op |-> "prepare", arg |-> "none", over |-> FALSE]
    /\ UNCHANGED <<events, game_over, score, arrows, actions_done, killed,
                   falls, turns, blacklist>>

PathDiscovered == \E c \in PathCells \ map.discovered :
                     /\ ItemCount < MaxPathItems
                     /\ PreparePath([map EXCEPT !.discovered = @ \cup {c}],
                                    location, direction)
PathWumpus     == \E c \in WumpusCells \ map.wumpuses :
                     /\ ItemCount < MaxPathItems
                     /\ PreparePath([map EXCEPT !.wumpuses = @ \cup {c}],
                                    location, direction)
PathPit        == \E c \in PitCells \ map.pits :
                     /\ ItemCount < MaxPathItems
                     /\ PreparePath([map EXCEPT !.pits = @ \cup {c}],
                                    location, direction)
PathPose       == \E loc \in StartCells, dir \in Direction :
                     /\ <<loc, dir>> # <<location, direction>>
                     /\ PreparePath(map, loc, dir)

\* pathfind(&game.location, &game.direction, &game.map); args keeps the
\* history of the search.
CallPathfind ==
    /\ last_call.op \in {"default", "prepare"}
    /\ \E st \in search(location, direction, map) :
        /\ result' = [links |-> st.links, costs |-> st.costs]
        /\ args' = [expanded |-> st.expanded, rewritten |-> st.rewritten,
                     stale |-> st.stale]
        /\ last_call' = [op |-> "pathfind", arg |-> "none", over |-> FALSE]
        /\ UNCHANGED <<map, location, direction, events, game_over, score, arrows,
                       actions_done, killed, falls, turns, blacklist>>

\* path_to_actions(&target, &game.direction, &path_map) on the links that
\* pathfind returned; result keeps them beside the target and the plan.
CallPathToActions ==
    /\ last_call.op = "pathfind"
    /\ \E target \in SampleSpace :
        /\ result' = [links |-> result.links, costs |-> result.costs,
                      target |-> target,
                      plan |-> path_to_actions(target, direction, result.links)]
        /\ last_call' = [op |-> "path_to_actions", arg |-> "none", over |-> FALSE]
        /\ UNCHANGED <<map, location, direction, events, game_over, score, arrows,
                       actions_done, killed, falls, turns, blacklist, args>>

NextPath ==
    \/ PathDiscovered \/ PathWumpus \/ PathPit \/ PathPose
    \/ CallPathfind
    \/ CallPathToActions

SpecPath == InitMap /\ [][NextPath]_vars

----------------------------------------------------------------------------
(* A client running ModelBayes against the server loop: the server hides a *)
(* clone of the game and sends it, the client answers with the action run  *)
(* returns, the server applies it.                                          *)

\* The vectors of special locations of the games played: the spawn, two
\* treasures, the wumpus, three pits.
BayesLayouts ==
    { <<SPAWN_LOCATION, Coord(1, 1), Coord(0, 3), Coord(2, 1),
        Coord(0, 1), Coord(1, 2), Coord(2, 3)>>,
      <<SPAWN_LOCATION, Coord(3, 0), Coord(1, 1), Coord(0, 1),
        Coord(1, 0), Coord(2, 1), Coord(3, 2)>>,
      <<SPAWN_LOCATION, Coord(2, 2), Coord(3, 3), Coord(3, 1),
        Coord(2, 0), Coord(0, 2), Coord(1, 3)>> }

\* Game::new_random() in handle_client and ModelBayes::default() in the
\* client, in a build with one of the two zero-factor products.
InitBayes ==
    /\ \E special_locations \in BayesLayouts :
         LET g == new_random(special_locations)
         IN  /\ map       = g.map
             /\ location  = g.location
             /\ direction = g.direction
             /\ events    = g.events
             /\ game_over = g.game_over
             /\ score     = g.score
             /\ arrows    = g.arrows
    /\ actions_done = 0
    /\ killed = {}
    /\ falls = NoFalls
    /\ turns = NoTurns("East")
    /\ last_call = [op |-> "new_random", arg |-> "none", over |-> FALSE]
    /\ blacklist = EmptyBlacklist
    /\ \E nullary \in NullaryProducts :
         args = [model |-> DefaultModelBayes, nullary |-> nullary]
    /\ result = "none"

\* One iteration of the loop of the client: the hidden game is received,
\* the loop ends if the game is over, else model.run(&game) picks the action
\* to send (or panics).
ClientRun ==
    /\ last_call.op \in {"new_random", "do_action"}
    /\ ~ game_over
    /\ \E out \in ModelBayes_run(args.model, blacklist,
                                 [Game EXCEPT !.map = hide_map(map)], args.nullary) :
         /\ args' = [args EXCEPT !.model = out.model]
         /\ blacklist' = out.blacklist
         /\ result' = [action |-> out.action, panic |-> out.panic,
                       branch |-> out.branch, target |-> out.target,
                       estimate |-> out.estimate]
    /\ last_call' = [op |-> "run", arg |-> "none", over |-> game_over]
    /\ UNCHANGED <<map, location, direction, events, game_over, score, arrows,
                   actions_done, killed, falls, turns>>

\* The server receives the action and performs it: game.do_action(action).
ServerDoAction ==
    /\ last_call.op = "run"
    /\ result.panic = "none"
    /\ actions_done < MaxPlays
    /\ DoAction(result.action)
    /\ UNCHANGED <<blacklist, args, result>>

NextBayes == ClientRun \/ ServerDoAction

SpecBayes == InitBayes /\ [][NextBayes]_vars

----------------------------------------------------------------------------
(* Vocabulary of the properties *)

\* The cell is inside the rectangle (0,0)..size.
InBounds(c) == c.x \in 0..map.size.x /\ c.y \in 0..map.size.y

\* The cell one step ahead of the agent, from the unit vector of its facing.
FrontCell ==
    LET dx == CASE direction = "East" -> 1 [] direction = "West"  -> 0 - 1 [] OTHER -> 0
        dy == CASE direction = "North" -> 1 [] direction = "South" -> 0 - 1 [] OTHER -> 0
    IN  Coord(location.x + dx, location.y + dy)

\* The step applies the given action to a Running game.
RunningStep(action) ==
    /\ ~game_over
    /\ last_call'.op = "do_action"
    /\ last_call'.arg = action

\* The last call applied the given action to a Running game.
RanAction(action) ==
    /\ last_call.op = "do_action"
    /\ last_call.arg = action
    /\ ~last_call.over

\* Every cell that can carry a marker: the map and the ring around it.
MarkerCells ==
    { Coord(x, y) : x \in (0 - 1)..(map.size.x + 1), y \in (0 - 1)..(map.size.y + 1) }

HasNeighbourIn(c, occupants) ==
    \E n \in occupants : (n.x - c.x) * (n.x - c.x) + (n.y - c.y) * (n.y - c.y) = 1

----------------------------------------------------------------------------
(* C1: after any sequence of add_* / remove_* calls on an empty Map, a      *)
(* glitter (stench, breeze) marker is at a cell exactly when one of the     *)
(* cell's orthogonal neighbours holds a treasure (wumpus, pit).             *)
MarkerConsistency ==
    /\ map.glitters \cup map.stenches \cup map.breezes \subseteq MarkerCells
    /\ \A c \in MarkerCells :
         /\ c \in map.glitters <=> HasNeighbourIn(c, map.treasures)
         /\ c \in map.stenches <=> HasNeighbourIn(c, map.wumpuses)
         /\ c \in map.breezes  <=> HasNeighbourIn(c, map.pits)

\* A treasure was just removed and a neighbour of its cell keeps its glitter
\* because another treasure is next to it.
MarkerKeptAfterRemove ==
    /\ last_call.op = "remove_treasure"
    /\ last_call.arg \notin map.treasures
    /\ \E c \in map.glitters :
         /\ HasNeighbourIn(c, {last_call.arg})
         /\ HasNeighbourIn(c, map.treasures)

----------------------------------------------------------------------------
(* C2: when game_over is true, do_action leaves score, location, direction, *)
(* arrows, the Map and game_over unchanged, and changes events at most by   *)
(* setting the game-over flag.                                              *)
GameOverIsTerminal ==
    [][ game_over =>
          /\ score'     = score
          /\ location'  = location
          /\ direction' = direction
          /\ arrows'    = arrows
          /\ map'       = map
          /\ game_over' = game_over
          /\ events'    = [events EXCEPT !.gameover = TRUE] ]_vars

\* An action has been applied to a game that was already over.
ActedWhenOver ==
    /\ last_call.op = "do_action"
    /\ last_call.over
    /\ game_over
    /\ events.wumpus \/ events.treasure

----------------------------------------------------------------------------
(* C3: a Shoot with an arrow at the wumpus directly ahead sets scream and   *)
(* removes the cell from wumpuses; afterwards a Walk onto that cell sets    *)
(* neither on-wumpus nor game-over.                                         *)
ShotWumpusIsGone ==
    [][ /\ (RunningStep("Shoot") /\ arrows > 0 /\ FrontCell \in map.wumpuses) =>
             /\ events'.scream
             /\ FrontCell \notin map'.wumpuses
             /\ FrontCell \in killed'
        /\ (RunningStep("Walk") /\ FrontCell \in killed) =>
             /\ location' = FrontCell
             /\ ~events'.wumpus
             /\ ~events'.gameover
             /\ ~game_over' ]_vars

\* The agent has walked onto the cell of the wumpus it shot.
WalkedOntoShotWumpus ==
    /\ RanAction("Walk")
    /\ ~events.bonked
    /\ location \in killed

----------------------------------------------------------------------------
(* C4 as stated: in a Running game a Dig on a cell without treasure         *)
(* decreases score by exactly 50 and does not set treasure-found.           *)
DigWithoutTreasureCosts50 ==
    [][ (RunningStep("Dig") /\ location \notin map.treasures) =>
          /\ score' = score - 50
          /\ ~events'.treasure ]_vars

(* C4 amended: in a Running game a Dig on a cell without treasure decreases *)
(* score by exactly 51 (the dig cost of 50 on top of the action cost of 1)  *)
(* and does not set treasure-found.                                         *)
DigWithoutTreasureCosts51 ==
    [][ (RunningStep("Dig") /\ location \notin map.treasures) =>
          /\ score' = score - 51
          /\ ~events'.treasure ]_vars

\* The agent has dug in a Running game and found nothing.
DugNothing ==
    /\ RanAction("Dig")
    /\ ~events.treasure
    /\ location \notin map.treasures

----------------------------------------------------------------------------
(* C5: in a Running game a Dig on the last remaining treasure removes it,   *)
(* adds the reward of 250 (with the action cost 1 and the dig cost 50) and  *)
(* sets treasure-found, events.gameover and game_over; a Dig that leaves a  *)
(* treasure on the map sets neither events.gameover nor game_over.          *)
DigLastTreasureEndsGame ==
    [][ /\ (RunningStep("Dig") /\ map.treasures = {location}) =>
             /\ map'.treasures = {}
             /\ score' = score - 1 - 50 + 250
             /\ events'.treasure
             /\ events'.gameover
             /\ game_over'
        /\ (RunningStep("Dig") /\ map'.treasures # {}) =>
             /\ ~events'.gameover
             /\ ~game_over' ]_vars

\* The agent has dug up the last treasure.
DugLastTreasure ==
    /\ RanAction("Dig")
    /\ events.treasure
    /\ map.treasures = {}
    /\ game_over

----------------------------------------------------------------------------
(* C6: game_over is true exactly when no treasure is left or the agent is   *)
(* on a cell holding a wumpus; once true it stays true.                     *)
GameOverIffEnded ==
    /\ [](game_over <=> (map.treasures = {} \/ location \in map.wumpuses))
    /\ [][game_over => game_over']_vars

\* The game ended on the wumpus and an action was applied afterwards.
OverOnWumpus ==
    /\ game_over
    /\ location \in map.wumpuses
    /\ map.treasures # {}
    /\ last_call.op = "do_action"
    /\ last_call.over

----------------------------------------------------------------------------
(* C7: in a Running game a Walk whose front cell is in bounds and holds the *)
(* wumpus sets on-wumpus, events.gameover and game_over, changes score by   *)
(* -1 - 200, marks the cell discovered and moves the agent onto it.         *)
WalkOntoWumpus ==
    [][ (RunningStep("Walk") /\ InBounds(FrontCell) /\ FrontCell \in map.wumpuses) =>
          /\ events'.wumpus
          /\ events'.gameover
          /\ game_over'
          /\ score' = score - 1 - 200
          /\ FrontCell \in map'.discovered
          /\ location' = FrontCell ]_vars

\* The agent has just walked onto the wumpus.
SteppedOnWumpus ==
    /\ RanAction("Walk")
    /\ events.wumpus
    /\ location \in map.wumpuses

----------------------------------------------------------------------------
(* C8: in a Running game a Walk whose front cell is in bounds and holds a   *)
(* pit sets on-pit, changes score by -1 - 100, moves the agent there and    *)
(* leaves game_over false, on the first and on every later such Walk.       *)
WalkOntoPit ==
    [][ (RunningStep("Walk") /\ InBounds(FrontCell) /\ FrontCell \in map.pits) =>
          /\ events'.pit
          /\ score' = score - 1 - 100
          /\ location' = FrontCell
          /\ ~game_over'
          /\ falls'[FrontCell] = falls[FrontCell] + 1 ]_vars

\* The agent has just walked onto a pit it had already fallen into.
FellIntoSamePitAgain ==
    /\ RanAction("Walk")
    /\ events.pit
    /\ location \in map.pits
    /\ falls[location] >= 2

----------------------------------------------------------------------------
(* C9: in a Running game a Walk whose front cell is outside the map sets    *)
(* bonked, changes score by -1 and leaves location, direction, arrows,      *)
(* game_over and the Map unchanged; the agent's location is always in       *)
(* bounds and discovered.                                                   *)
BonkKeepsAgentInside ==
    /\ [][ (RunningStep("Walk") /\ ~InBounds(FrontCell)) =>
             /\ events'.bonked
             /\ score'     = score - 1
             /\ location'  = location
             /\ direction' = direction
             /\ arrows'    = arrows
             /\ game_over' = game_over
             /\ map'       = map ]_vars
    /\ [](InBounds(location) /\ location \in map.discovered)

\* The agent has just walked into a wall.
Bonked ==
    /\ RanAction("Walk")
    /\ events.bonked
    /\ ~InBounds(FrontCell)

----------------------------------------------------------------------------
(* C10: in a Running game Left turns the facing a quarter turn counter-     *)
(* clockwise and Right a quarter turn clockwise; either changes score by    *)
(* -1, resets events to the three senses of the current cell and leaves     *)
(* location, arrows, game_over and the Map unchanged; four consecutive      *)
(* Left (or Right) actions restore the facing.                              *)
Vector(d) ==
    CASE d = "East"  -> <<1, 0>>
      [] d = "North" -> <<0, 1>>
      [] d = "West"  -> <<0 - 1, 0>>
      [] d = "South" -> <<0, 0 - 1>>

TurnOnlyTurns ==
    /\ [][ \A a \in {"Left", "Right"} : RunningStep(a) =>
             /\ Vector(direction') =
                  IF a = "Left"
                  THEN <<0 - Vector(direction)[2], Vector(direction)[1]>>
                  ELSE <<Vector(direction)[2], 0 - Vector(direction)[1]>>
             /\ score'     = score - 1
             /\ location'  = location
             /\ arrows'    = arrows
             /\ game_over' = game_over
             /\ map'       = map
             /\ events'    = [DefaultEvents EXCEPT
                                !.glitter = location \in map.glitters,
                                !.stench  = location \in map.stenches,
                                !.breeze  = location \in map.breezes] ]_vars
    /\ [](turns.n = 4 => direction = turns.from)

\* The agent has just made its fourth consecutive Left.
TurnedLeftFourTimes ==
    /\ RanAction("Left")
    /\ turns.kind = "Left"
    /\ turns.n = 4


----------------------------------------------------------------------------
(* C11: in a Running game a Shoot with no arrow left changes score by       *)
(* exactly -1, leaves arrows at 0, sets no scream and leaves the Map,       *)
(* location and direction unchanged; arrows is always 0 or 1 and never      *)
(* increases.                                                               *)
ShootWithoutArrow ==
    /\ [][ (RunningStep("Shoot") /\ arrows = 0) =>
             /\ score'     = score - 1
             /\ arrows'    = 0
             /\ ~events'.scream
             /\ map'       = map
             /\ location'  = location
             /\ direction' = direction ]_vars
    /\ [](arrows \in 0..1)
    /\ [][arrows' <= arrows]_vars

\* The agent has shot twice from the spawn: 11 for the first Shoot, which
\* used the arrow, and 1 for the second, made without one.
ShotTwiceAtSpawn ==
    /\ RanAction("Shoot")
    /\ actions_done = 2
    /\ location = SPAWN_LOCATION
    /\ direction = SPAWN_DIRECTION
    /\ arrows = 0
    /\ score = 0 - 12

----------------------------------------------------------------------------
(* C12: a Game made by new_random has exactly 2 treasure cells, 1 wumpus    *)
(* cell and 3 pit cells, all in bounds, pairwise distinct and none the      *)
(* spawn; the agent is at (0,0) facing East with 1 arrow, score 0,          *)
(* game_over false and discovered = {spawn}.                                *)
NewRandomLayout ==
    last_call.op = "new_random" =>
        /\ Cardinality(map.treasures) = 2
        /\ Cardinality(map.wumpuses)  = 1
        /\ Cardinality(map.pits)      = 3
        /\ Cardinality(map.treasures \cup map.wumpuses \cup map.pits) = 6
        /\ \A c \in map.treasures \cup map.wumpuses \cup map.pits :
             InBounds(c) /\ c # Coord(0, 0)
        /\ location = Coord(0, 0)
        /\ direction = "East"
        /\ arrows = 1
        /\ score = 0
        /\ ~game_over
        /\ map.discovered = {Coord(0, 0)}

\* A fresh game in which new_random has placed something next to the spawn.
FreshGame ==
    /\ last_call.op = "new_random"
    /\ actions_done = 0
    /\ \E c \in map.treasures \cup map.wumpuses \cup map.pits :
         HasNeighbourIn(Coord(0, 0), {c})

----------------------------------------------------------------------------
(* C13: is_map_valid accepts, with an empty blacklist, every Map made by    *)
(* new_random.                                                              *)
NewRandomMapIsValid ==
    last_call.op = "new_random" => is_map_valid(map, EmptyBlacklist)

\* A fresh game whose spawn, the one discovered cell, carries a marker, and
\* whose map has markers outside the bounds.
FreshGameWithMarkers ==
    /\ last_call.op = "new_random"
    /\ Coord(0, 0) \in map.glitters \cup map.stenches \cup map.breezes
    /\ \E c \in map.glitters \cup map.stenches \cup map.breezes : ~InBounds(c)

----------------------------------------------------------------------------
(* C14: every element of each of the seven sets of the Map (treasures,      *)
(* wumpuses, pits, glitters, stenches, breezes, discovered) lies within     *)
(* the map bounds.                                                          *)
AllSetsInBounds ==
    \A c \in map.treasures \cup map.wumpuses \cup map.pits \cup map.glitters
               \cup map.stenches \cup map.breezes \cup map.discovered :
        InBounds(c)


----------------------------------------------------------------------------
(* C15: is_map_valid returns true exactly when (1) every treasure, wumpus   *)
(* and pit is in bounds, (2) no blacklisted coordinate holds its forbidden  *)
(* class, an Empty entry forbidding all three, (3) there are at most 2      *)
(* treasures, 1 wumpus and 3 pits, (4) every discovered neighbour of a      *)
(* treasure, wumpus or pit carries the matching marker and (5) every        *)
(* marker has an in-bounds neighbour of the matching class; the call        *)
(* leaves the map and the blacklist as they were.                           *)
Adjacent(a, b) ==
    \/ (a.x = b.x /\ (a.y = b.y + 1 \/ b.y = a.y + 1))
    \/ (a.y = b.y /\ (a.x = b.x + 1 \/ b.x = a.x + 1))

OccupantsOf(class) ==
    CASE class = "Treasure" -> map.treasures
      [] class = "Wumpus"   -> map.wumpuses
      [] class = "Pit"      -> map.pits
      [] class = "Empty"    -> map.treasures \cup map.wumpuses \cup map.pits

MarkersOf(class) ==
    CASE class = "Treasure" -> map.glitters
      [] class = "Wumpus"   -> map.stenches
      [] class = "Pit"      -> map.breezes

Quota(class) ==
    CASE class = "Treasure" -> 2
      [] class = "Wumpus"   -> 1
      [] class = "Pit"      -> 3

RuleInBounds == \A c \in OccupantsOf("Empty") : InBounds(c)

RuleBlacklist == \A c \in DOMAIN blacklist : c \notin OccupantsOf(blacklist[c])

RuleCounts ==
    \A class \in {"Treasure", "Wumpus", "Pit"} :
        Cardinality(OccupantsOf(class)) <= Quota(class)

RulePerceptsExplained ==
    \A class \in {"Treasure", "Wumpus", "Pit"} :
        \A o \in OccupantsOf(class), d \in map.discovered :
            Adjacent(o, d) => d \in MarkersOf(class)

RuleMarkersExplained ==
    \A class \in {"Treasure", "Wumpus", "Pit"} :
        \A mk \in MarkersOf(class) :
            \E o \in OccupantsOf(class) : InBounds(o) /\ Adjacent(o, mk)

ValidatorFollowsRules ==
    /\ [](last_call.op = "is_map_valid" =>
            (result <=> /\ RuleInBounds
                        /\ RuleBlacklist
                        /\ RuleCounts
                        /\ RulePerceptsExplained
                        /\ RuleMarkersExplained))
    /\ [][last_call'.op = "is_map_valid" => (map' = map /\ blacklist' = blacklist)]_vars

\* The validator has accepted a map on which a discovered cell senses an
\* occupant next to it.
ValidatorAccepted ==
    /\ last_call.op = "is_map_valid"
    /\ result = TRUE
    /\ \E class \in {"Treasure", "Wumpus", "Pit"} :
         \E o \in OccupantsOf(class), d \in map.discovered :
             Adjacent(o, d) /\ d \in MarkersOf(class)


----------------------------------------------------------------------------
(* C16 as stated: hide_map replaces each of treasures, wumpuses and pits by *)
(* its intersection with discovered and leaves discovered and size          *)
(* unchanged.                                                               *)
SnapshotKeepsDiscoveredOccupants ==
    last_call.op # "new_random" =>
        /\ result.treasures  = map.treasures \cap map.discovered
        /\ result.wumpuses   = map.wumpuses \cap map.discovered
        /\ result.pits       = map.pits \cap map.discovered
        /\ result.discovered = map.discovered
        /\ result.size       = map.size

(* C16 amended: hide_map empties treasures and replaces each of wumpuses    *)
(* and pits by its intersection with discovered, so a wumpus or pit on a    *)
(* discovered cell is still in the snapshot, one on an undiscovered cell is *)
(* not, and no treasure ever is; discovered and size are unchanged.         *)
SnapshotKeepsDiscoveredHazards ==
    last_call.op # "new_random" =>
        /\ result.treasures  = {}
        /\ result.wumpuses   = map.wumpuses \cap map.discovered
        /\ result.pits       = map.pits \cap map.discovered
        /\ result.discovered = map.discovered
        /\ result.size       = map.size

\* The snapshot of a game whose agent has walked over a treasure and into a
\* pit, with another pit still undiscovered.
SnapshotWithDiscoveredOccupants ==
    /\ last_call.op = "do_action"
    /\ map.treasures \cap map.discovered # {}
    /\ map.pits \cap map.discovered # {}
    /\ map.pits \ map.discovered # {}
    /\ result.pits # {}

----------------------------------------------------------------------------
(* C17: in the snapshot every coordinate of treasures, wumpuses, pits,      *)
(* glitters, stenches and breezes is a discovered cell, and the snapshot    *)
(* does not depend on what the undiscovered cells hold: the map with every  *)
(* undiscovered cell emptied, and the map with every undiscovered cell      *)
(* holding every occupant and marker, give the same snapshot.               *)
MapFields == {"treasures", "wumpuses", "pits", "glitters", "stenches", "breezes"}

\* The map with everything on undiscovered cells taken off.
Erased(m) ==
    [f \in DOMAIN m |-> IF f \in MapFields THEN m[f] \cap m.discovered ELSE m[f]]

\* The map with every occupant and marker put on every undiscovered cell of
\* the map and of the ring around it.
Filled(m) ==
    [f \in DOMAIN m |-> IF f \in MapFields
                        THEN m[f] \cup (MarkerCells \ m.discovered)
                        ELSE m[f]]

SnapshotRevealsOnlyDiscovered ==
    last_call.op # "new_random" =>
        /\ \A f \in MapFields : result[f] \subseteq map.discovered
        /\ hide_map(Erased(map)) = result
        /\ hide_map(Filled(map)) = result

\* The snapshot of a game that still has an occupant and a marker of it on
\* undiscovered cells, after the agent has moved.
SnapshotHidesUndiscovered ==
    /\ last_call.op = "do_action"
    /\ Cardinality(map.discovered) >= 2
    /\ map.wumpuses \ map.discovered # {}
    /\ map.stenches \ map.discovered # {}
    /\ map.stenches \cap map.discovered # {}
    /\ result.stenches # {}


----------------------------------------------------------------------------
(* The enumeration of the map possibilities *)

\* The cells of the two lists of the call.
ListedCells == SeqRange(args.frontier) \cup SeqRange(args.possible_treasures)

DisjointLists == SeqRange(args.frontier) \cap SeqRange(args.possible_treasures) = {}

\* The combinations of the cross product: any class on a frontier cell,
\* Empty or Treasure on a candidate-treasure cell.
Combinations ==
    { a \in [ListedCells -> Class] :
        \A c \in SeqRange(args.possible_treasures) : a[c] \in {"Empty", "Treasure"} }

\* The map with exactly the combination on its listed cells.
WithCombination(m, a) ==
    [m EXCEPT !.treasures = (@ \ DOMAIN a) \cup { c \in DOMAIN a : a[c] = "Treasure" },
              !.wumpuses  = (@ \ DOMAIN a) \cup { c \in DOMAIN a : a[c] = "Wumpus" },
              !.pits      = (@ \ DOMAIN a) \cup { c \in DOMAIN a : a[c] = "Pit" }]

AcceptedCombinations ==
    { a \in Combinations : is_map_valid(WithCombination(map, a), blacklist) }

TallySum(field) == field.empty + field.treasure + field.wumpus + field.pit

\* What the claim says of the value returned for the lists of the call.
CountsCrossProduct ==
    /\ result.total_possibilities = Cardinality(AcceptedCombinations)
    /\ DOMAIN result.counts = ListedCells
    /\ \A c \in ListedCells :
          TallySum(result.counts[c]) = result.total_possibilities
    /\ \A c \in SeqRange(args.possible_treasures) :
          /\ result.counts[c].wumpus = 0
          /\ result.counts[c].pit = 0

\* C18: for disjoint frontier and candidate-treasure lists,
\* calculate_map_possibilities counts in total_possibilities the combinations
\* of the cross product that is_map_valid accepts on the input map with that
\* combination applied, the four tallies of every listed cell sum to
\* total_possibilities, and a candidate-treasure cell has no wumpus and no
\* pit tally.
EnumerationCountsCrossProduct ==
    (last_call.op = "calculate_map_possibilities" /\ DisjointLists)
        => CountsCrossProduct

\* The same where no product of zero factors is taken, or where it yields
\* its one empty tuple; every tally is then the number of accepted
\* combinations with that class on the cell.
EnumerationCountsWhereProductsYield ==
    ( /\ last_call.op = "calculate_map_possibilities"
      /\ DisjointLists
      /\ \/ last_call.arg = << <<>> >>
         \/ (args.frontier # <<>> /\ args.possible_treasures # <<>>) )
        => /\ CountsCrossProduct
           /\ \A c \in ListedCells :
                 /\ result.counts[c].empty =
                      Cardinality({ a \in AcceptedCombinations : a[c] = "Empty" })
                 /\ result.counts[c].treasure =
                      Cardinality({ a \in AcceptedCombinations : a[c] = "Treasure" })
                 /\ result.counts[c].wumpus =
                      Cardinality({ a \in AcceptedCombinations : a[c] = "Wumpus" })
                 /\ result.counts[c].pit =
                      Cardinality({ a \in AcceptedCombinations : a[c] = "Pit" })

\* A call with a frontier cell holding an occupant on the input map and a
\* candidate cell, with some combinations accepted and some rejected.
EnumeratedSomeAccepted ==
    /\ last_call.op = "calculate_map_possibilities"
    /\ DisjointLists
    /\ args.frontier # <<>>
    /\ args.possible_treasures # <<>>
    /\ SeqRange(args.frontier) \cap (map.treasures \cup map.wumpuses \cup map.pits) # {}
    /\ result.total_possibilities > 1
    /\ result.total_possibilities < Cardinality(Combinations)

\* C19: calculate_map_possibilities called with an empty frontier and an
\* empty candidate-treasure list returns total_possibilities = 1 and an
\* empty tally map.
EmptyEnumerationIsOne ==
    ( /\ last_call.op = "calculate_map_possibilities"
      /\ args.frontier = <<>>
      /\ args.possible_treasures = <<>> )
        => /\ result.total_possibilities = 1
           /\ DOMAIN result.counts = {}

\* For the empty lists the one combination tested, if the product yields
\* it, is the input map itself: total_possibilities is 1 when the product
\* yields its empty tuple and is_map_valid accepts the input map, 0 otherwise.
EmptyEnumerationTestsInputMap ==
    ( /\ last_call.op = "calculate_map_possibilities"
      /\ args.frontier = <<>>
      /\ args.possible_treasures = <<>> )
        => /\ result.total_possibilities =
                (IF last_call.arg = << <<>> >> /\ is_map_valid(map, blacklist)
                 THEN 1 ELSE 0)
           /\ DOMAIN result.counts = {}


----------------------------------------------------------------------------
(* The path search *)

HazardFree == map.wumpuses = {} /\ map.pits = {}

\* The in-bounds neighbours of the start that need a 90 degree turn.
SideCells ==
    { c \in { get_front(location, rotate_left(direction)),
              get_front(location, rotate_right(direction)) } : InBounds(c) }

\* C20 as stated: on a hazard-free map pathfind gives cost 2 to the in-bounds
\* neighbour directly ahead of the start and cost 3 to an in-bounds neighbour
\* that needs a 90 degree turn.
PathfindAheadCosts2 ==
    (last_call.op = "pathfind" /\ HazardFree)
        => /\ InBounds(FrontCell) => result.costs[FrontCell] = 2
           /\ \A c \in SideCells : result.costs[c] = 3

\* C20: on a hazard-free map pathfind gives cost 1 to the in-bounds neighbour
\* directly ahead of the start and cost 2 to an in-bounds neighbour that
\* needs a 90 degree turn; from (0,0) facing East, (1,0) gets cost 1 and
\* (0,1) gets cost 2.
PathfindAheadCosts1 ==
    (last_call.op = "pathfind" /\ HazardFree)
        => /\ InBounds(FrontCell) =>
                (FrontCell \in DOMAIN result.costs /\ result.costs[FrontCell] = 1)
           /\ \A c \in SideCells :
                (c \in DOMAIN result.costs /\ result.costs[c] = 2)
           /\ (location = Coord(0, 0) /\ direction = "East")
                => /\ result.costs[Coord(1, 0)] = 1
                   /\ result.costs[Coord(0, 1)] = 2

\* pathfind has returned from (0,0) facing East on a hazard-free map whose
\* discovered cells let the search go on through both neighbours.
PathfoundFromSpawn ==
    /\ last_call.op = "pathfind"
    /\ HazardFree
    /\ location = Coord(0, 0)
    /\ direction = "East"
    /\ {Coord(1, 0), Coord(0, 1)} \subseteq map.discovered
    /\ Coord(1, 1) \in DOMAIN result.costs
    /\ result.costs[Coord(1, 0)] = 1
    /\ result.costs[Coord(0, 1)] = 2


\* C21: pathfind gives the start cell cost 0 and links it to itself, no
\* relaxation replaces the entry of the start, and path_to_actions with the
\* start as its target returns the empty action sequence.
StartKeepsCostZero ==
    /\ last_call.op \in {"pathfind", "path_to_actions"}
        => /\ location \in DOMAIN result.costs
           /\ result.costs[location] = 0
           /\ location \in DOMAIN result.links
           /\ result.links[location] = location
           /\ location \notin args.rewritten
    /\ (last_call.op = "path_to_actions" /\ result.target = location)
        => /\ result.plan.some
           /\ result.plan.ends
           /\ result.plan.actions = <<>>

\* path_to_actions was asked for the start after a search that expanded
\* other cells, replaced entries by relaxation and went past a hazard.
PlannedToStart ==
    /\ last_call.op = "path_to_actions"
    /\ result.target = location
    /\ Len(args.expanded) > 2
    /\ args.rewritten # {}
    /\ ~ HazardFree
    /\ result.plan.actions = <<>>


\* The cells from the start to c along the links of the result, c last.
RECURSIVE ChainTo(_)
ChainTo(c) ==
    IF result.links[c] = c THEN <<c>> ELSE Append(ChainTo(result.links[c]), c)

\* The direction of the step from a cell to the adjacent cell b.
EdgeDirection(a, b) == CHOOSE d \in Direction : get_front(a, d) = b

\* The actions of one step in direction edge taken while facing.
Segment(facing, edge) ==
    CASE edge = facing               -> <<"Walk">>
      [] edge = rotate_right(facing) -> <<"Right", "Walk">>
      [] edge = rotate_left(facing)  -> <<"Left", "Walk">>
      [] edge = rotate_back(facing)  -> <<"Right", "Right", "Walk">>

\* The segments of the steps of a chain of cells entered while facing.
RECURSIVE Segments(_, _)
Segments(facing, chain) ==
    IF Len(chain) < 2
    THEN <<>>
    ELSE LET edge == EdgeDirection(chain[1], chain[2])
         IN  Segment(facing, edge) \o Segments(edge, Tail(chain))

CountOf(action, actions) ==
    Cardinality({ i \in DOMAIN actions : actions[i] = action })

\* C22: for a target in the link map path_to_actions emits, for every step
\* of the path from the start and relative to the facing held after the step
\* before: Walk when the step is straight ahead, Right, Walk for a right
\* turn, Left, Walk for a left turn, Right, Right, Walk for a reversal; one
\* Walk for every edge of the path and no Dig or Shoot.  From (0,0) facing
\* East the plan to (1,0) is Walk and the plan to (0,1) is Left, Walk.
PlanFollowsPath ==
    (last_call.op = "path_to_actions" /\ result.target \in DOMAIN result.links)
        => /\ result.plan.some
           /\ result.plan.actions = Segments(direction, ChainTo(result.target))
           /\ CountOf("Walk", result.plan.actions) = Len(ChainTo(result.target)) - 1
           /\ CountOf("Dig", result.plan.actions) = 0
           /\ CountOf("Shoot", result.plan.actions) = 0
           /\ (location = Coord(0, 0) /\ direction = "East")
                => /\ result.target = Coord(1, 0) => result.plan.actions = <<"Walk">>
                   /\ result.target = Coord(0, 1) => result.plan.actions = <<"Left", "Walk">>

\* A plan that starts with a reversal, goes straight on and then turns left.
PlannedReversalAndLeft ==
    /\ last_call.op = "path_to_actions"
    /\ result.target \in DOMAIN result.links
    /\ result.plan.actions = <<"Right", "Right", "Walk", "Walk", "Left", "Walk">>


\* C23: path_to_actions returns None if and only if the target is absent
\* from the link map, and then it has produced no action; for a target that
\* is present it returns a sequence.
NoneIffTargetAbsent ==
    last_call.op = "path_to_actions"
        => /\ result.plan.ends
           /\ result.plan.some <=> result.target \in DOMAIN result.links
           /\ ~ result.plan.some => result.plan.actions = <<>>

\* path_to_actions was asked for an in-bounds cell that the search of a map
\* with discovered cells did not reach.
PlannedToUnreached ==
    /\ last_call.op = "path_to_actions"
    /\ InBounds(result.target)
    /\ result.target \notin DOMAIN result.links
    /\ Cardinality(DOMAIN result.links) > 5
    /\ ~ result.plan.some


\* The cells connected to the start through discovered cells of the map.
RECURSIVE Grow(_)
Grow(cells) ==
    LET more == { n \in neighbours_of_all(cells) : InBounds(n) /\ n \in map.discovered }
    IN  IF more \subseteq cells THEN cells ELSE Grow(cells \cup more)

Connected == Grow({location})

\* C24: pathfind expands only the start and discovered cells; the keys of
\* its result are the cells connected to the start through discovered cells
\* and their in-bounds neighbours; an undiscovered cell is linked to an
\* expanded cell next to it and is never expanded; every cell of a planned
\* path but the target is the start or a discovered cell.
ExpandsOnlyDiscovered ==
    last_call.op \in {"pathfind", "path_to_actions"}
        => /\ SeqRange(args.expanded) = Connected
           /\ SeqRange(args.expanded) \subseteq {location} \cup map.discovered
           /\ DOMAIN result.links =
                Connected \cup { n \in neighbours_of_all(Connected) : InBounds(n) }
           /\ DOMAIN result.costs = DOMAIN result.links
           /\ \A c \in DOMAIN result.links \ {location} :
                /\ result.links[c] \in SeqRange(args.expanded)
                /\ c \in get_neighbours(result.links[c])
                /\ \A i \in 1..(Len(ChainTo(c)) - 1) :
                      ChainTo(c)[i] \in {location} \cup map.discovered

\* A search that went on through discovered cells, gave a cost to an
\* undiscovered leaf and left a discovered cell out that nothing connects.
SearchedWithLeaves ==
    /\ last_call.op = "pathfind"
    /\ Len(args.expanded) > 2
    /\ \E c \in DOMAIN result.links : c \notin map.discovered /\ c # location
    /\ \E c \in map.discovered : InBounds(c) /\ c \notin DOMAIN result.links


\* The cost of the path that the links of the result give for a cell: the
\* actions path_to_actions emits for it, and the penalty of every pit and
\* of every wumpus on a cell the path enters.
PathCost(c) ==
    LET chain   == ChainTo(c)
        entered == { chain[i] : i \in 2..Len(chain) }
    IN  Len(path_to_actions(c, direction, result.links).actions)
        + (0 - SCORE_PIT) * Cardinality(entered \cap map.pits)
        + (0 - SCORE_WUMPUS) * Cardinality(entered \cap map.wumpuses)

\* C27 as stated: for every cell of the result of pathfind the returned cost
\* is the cost of the path obtained by following the returned links.
CostIsCostOfLinkedPath ==
    last_call.op = "pathfind"
        => \A c \in DOMAIN result.links : result.costs[c] = PathCost(c)


\* C27: for every cell of the result of pathfind the returned cost is at
\* least the cost of the path obtained by following the returned links, and
\* it is that cost where no cell of the path had its entry replaced after it
\* had been expanded.
CostBoundsCostOfLinkedPath ==
    last_call.op = "pathfind"
        => \A c \in DOMAIN result.links :
              /\ result.costs[c] >= PathCost(c)
              /\ SeqRange(ChainTo(c)) \cap args.stale = {}
                    => result.costs[c] = PathCost(c)

\* A search around a discovered pit, with no wumpus on the map: a cell
\* expanded with the cost of the route through the pit was relaxed later,
\* and a cell linked to it kept a cost above the cost of its path.
SearchedWithStaleCost ==
    /\ last_call.op = "pathfind"
    /\ map.wumpuses = {}
    /\ args.stale # {}
    /\ \E c \in DOMAIN result.links :
          /\ result.links[c] \in args.stale
          /\ result.costs[c] > PathCost(c)
          /\ ChainTo(c)[1] = location


\* C28: pathfind ends having dequeued every cell at most once; every cell
\* but the start costs strictly more than the cell it is linked to, so the
\* links lead from every linked cell to the start without a cycle, and
\* path_to_actions ends on the links pathfind returns.
LinksLeadToStart ==
    /\ last_call.op \in {"pathfind", "path_to_actions"}
        => /\ \A i, j \in DOMAIN args.expanded :
                 args.expanded[i] = args.expanded[j] => i = j
           /\ \A c \in DOMAIN result.links \ {location} :
                 /\ result.links[c] \in DOMAIN result.costs
                 /\ result.costs[c] > result.costs[result.links[c]]
           /\ \A c \in DOMAIN result.links :
                 LET built == build_path(<<c>>, result.links)
                 IN  /\ built.ends
                     /\ built.path[Len(built.path)] = location
    /\ last_call.op = "path_to_actions" => result.plan.ends

\* A plan of three steps or more found by a search that dequeued four cells
\* or more and re-linked a cell it had already dequeued.
PlannedAfterRelinking ==
    /\ last_call.op = "path_to_actions"
    /\ Len(args.expanded) >= 4
    /\ args.stale # {}
    /\ result.plan.some
    /\ CountOf("Walk", result.plan.actions) >= 3
    /\ result.links[result.target] \in args.stale


\* The game after the actions were applied in order through do_action, and
\* whether one of them set bonked.
RECURSIVE AfterActions(_, _)
AfterActions(run, actions) ==
    IF actions = <<>>
    THEN run
    ELSE LET g == do_action(run.game, Head(actions))
         IN  AfterActions([game |-> g, bonked |-> run.bonked \/ g.events.bonked],
                          Tail(actions))

AfterPlan == AfterActions([game |-> Game, bonked |-> FALSE], result.plan.actions)

\* A game the server loop can be in while Running: entering the cell of a
\* wumpus ends the game, so no discovered cell holds one.
RunningGame == ~ game_over /\ map.discovered \cap map.wumpuses = {}

\* The same as an invariant of the games played through the server loop.
RunningGamesHaveNoDiscoveredWumpus ==
    ~ game_over => map.discovered \cap map.wumpuses = {}

\* C26: for a Running game and a target in the link map that pathfind
\* returns for its location, direction and map, applying the actions of
\* path_to_actions for the target in order through do_action never sets
\* bonked and leaves the agent on the target.
PlanReachesTarget ==
    ( /\ last_call.op = "path_to_actions"
      /\ RunningGame
      /\ result.target \in DOMAIN result.links )
        => /\ ~ AfterPlan.bonked
           /\ AfterPlan.game.location = result.target

\* A plan of three steps or more that turns, enters a discovered pit on
\* its way and ends on its target, an undiscovered cell.
PlanRanThroughPit ==
    /\ last_call.op = "path_to_actions"
    /\ RunningGame
    /\ result.target \in DOMAIN result.links
    /\ result.target \notin map.discovered
    /\ CountOf("Walk", result.plan.actions) >= 3
    /\ CountOf("Left", result.plan.actions) + CountOf("Right", result.plan.actions) >= 1
    /\ SeqRange(ChainTo(result.target)) \cap map.pits # {}
    /\ AfterPlan.game.location = result.target
    /\ AfterPlan.game.score <= 0 - 103


----------------------------------------------------------------------------
\* C25: whenever ModelBayes::run is called in the game it plays through the
\* server loop, it returns an action: it does not reach unreachable!(), and
\* no unwrap or index of it panics.
RunReturnsAnAction ==
    last_call.op = "run" => result.panic = "none"

\* The redacted map with the true classes of the frontier and candidate
\* cells of the last estimate put onto it.
TrueLayout ==
    LET hidden == hide_map(map)
        listed == result.estimate.frontier \cup result.estimate.possible_treasures
    IN  [hidden EXCEPT
            !.treasures = (@ \ listed) \cup (map.treasures \cap listed),
            !.wumpuses  = (@ \ listed) \cup (map.wumpuses \cap listed),
            !.pits      = (@ \ listed) \cup (map.pits \cap listed)]

Estimated == last_call.op = "run" /\ result.estimate.ran

\* C29: whenever the estimator runs, the true classes of the frontier and
\* candidate cells make a layout that is_map_valid accepts under the
\* blacklist of the agent, and total_possibilities is at least 1.
EstimatorKeepsTrueLayout ==
    Estimated =>
        /\ is_map_valid(TrueLayout, result.estimate.blacklist)
        /\ result.estimate.total_possibilities >= 1

\* The first half of C29 alone: the true layout passes the validator.
TrueLayoutIsValid ==
    Estimated => is_map_valid(TrueLayout, result.estimate.blacklist)


\* In a build whose zero-factor product yields the empty tuple, run returned
\* an action in every game played here.
RunReturnsAnActionWhereProductsYield ==
    (last_call.op = "run" /\ args.nullary # <<>>) => result.panic = "none"

\* The same for the total of the estimator.
EstimatorCountsTrueLayoutWhereProductsYield ==
    (Estimated /\ args.nullary # <<>>) => result.estimate.total_possibilities >= 1


\* The only panic of run met in the games played is unreachable!().
RunPanicsOnlyAtUnreachable ==
    last_call.op = "run" => result.panic \in {"none", "unreachable"}

====
